---- MODULE Spec2Model ----
(***************************************************************************)
(* A model of the OCR classification / extraction / naming core            *)
(* (src/classify_rules.py) and of the storage side of the LINE handlers    *)
(* (src/AI_OCR.py).                                                        *)
(*                                                                         *)
(* Strings are sequences of Unicode code points; a code point is followed  *)
(* by the character it stands for in a comment.  Regular expressions are   *)
(* kept as data (the parse tree Python's re builds for the pattern) and    *)
(* matched by a backtracking matcher with Python's priorities: leftmost    *)
(* start, alternatives in order, greedy repeats longest first, lazy        *)
(* repeats shortest first.                                                 *)
(***************************************************************************)
EXTENDS Integers, Sequences, FiniteSets, TLC

VARIABLES
    nPc, nText, nOnce, nTwice,     \* normalize_text applied once and twice
    kPc, kText, kNorm, kCat,       \* detect_category applied to a text
    uPc, uName, uStore, uI, uAsked, uResult,  \* one call of uniquify_filename
    pText, pExt, pStore, pRun,     \* two runs of a handler on one text
    rText, rPc, rName, rI, rFinal, rStore, rLog,  \* two handlers at the same time
    mG1, mG2, mText, mPc, mRole, mValid, mPatient, mDoctor,  \* names from two tokens
    hKind, hText, hStore, hPc, hName, hLink, hRows, hReplies  \* one message event

nVars == <<nPc, nText, nOnce, nTwice>>
kVars == <<kPc, kText, kNorm, kCat>>
uVars == <<uPc, uName, uStore, uI, uAsked, uResult>>
pVars == <<pText, pExt, pStore, pRun>>
rVars == <<rText, rPc, rName, rI, rFinal, rStore, rLog>>
mVars == <<mG1, mG2, mText, mPc, mRole, mValid, mPatient, mDoctor>>
hVars == <<hKind, hText, hStore, hPc, hName, hLink, hRows, hReplies>>
vars == <<nVars, kVars, uVars, pVars, rVars, mVars, hVars>>

(***************************************************************************)
(* Strings                                                                 *)
(***************************************************************************)
None == <<-1>>

\* All concatenations of at most k fragments of F.
RECURSIVE Concats(_, _)
Concats(F, k) ==
    IF k = 0 THEN {<<>>}
    ELSE LET P == Concats(F, k - 1) IN P \cup {p \o f : p \in P, f \in F}

(***************************************************************************)
(* Character classes of Python's re for str patterns                       *)
(***************************************************************************)
\* \s : the code points with str.isspace()
SpaceRanges ==
    {<<9, 13>>, <<28, 32>>, <<133, 133>>, <<160, 160>>, <<5760, 5760>>,
     <<8192, 8202>>, <<8232, 8233>>, <<8239, 8239>>, <<8287, 8287>>,
     <<12288, 12288>>}

\* \d : the decimal digits (category Nd) of the Basic Multilingual Plane
DigitRanges ==
    {<<48, 57>>, <<1632, 1641>>, <<1776, 1785>>, <<1984, 1993>>, <<2406, 2415>>,
     <<2534, 2543>>, <<2662, 2671>>, <<2790, 2799>>, <<2918, 2927>>,
     <<3046, 3055>>, <<3174, 3183>>, <<3302, 3311>>, <<3430, 3439>>,
     <<3558, 3567>>, <<3664, 3673>>, <<3792, 3801>>, <<3872, 3881>>,
     <<4160, 4169>>, <<4240, 4249>>, <<6112, 6121>>, <<6160, 6169>>,
     <<6470, 6479>>, <<6608, 6617>>, <<6784, 6793>>, <<6800, 6809>>,
     <<6992, 7001>>, <<7088, 7097>>, <<7232, 7241>>, <<7248, 7257>>,
     <<42528, 42537>>, <<43216, 43225>>, <<43264, 43273>>, <<43472, 43481>>,
     <<43504, 43513>>, <<43600, 43609>>, <<44016, 44025>>, <<65296, 65305>>}

\* \w : alphanumerics and underscore, for the blocks the texts are drawn from
\* (ASCII, CJK symbols and kana, CJK unified ideographs, full-width forms)
WordRanges ==
    {<<48, 57>>, <<65, 90>>, <<95, 95>>, <<97, 122>>, <<12293, 12295>>,
     <<12321, 12329>>, <<12337, 12341>>, <<12344, 12348>>, <<12353, 12438>>,
     <<12445, 12447>>, <<12449, 12538>>, <<12540, 12543>>, <<19968, 42124>>,
     <<65296, 65305>>, <<65313, 65338>>, <<65345, 65370>>, <<65382, 65470>>,
     <<65474, 65479>>, <<65482, 65487>>, <<65490, 65495>>, <<65498, 65500>>}

InRanges(c, rs) == \E r \in rs : r[1] <= c /\ c <= r[2]

\* re.IGNORECASE folds case; of the characters of the texts only the ASCII
\* letters have case.
Lower(c) == IF 65 <= c /\ c <= 90 THEN c + 32 ELSE c

Upper(c) == IF 97 <= c /\ c <= 122 THEN c - 32 ELSE c

(***************************************************************************)
(* Regular expressions: the nodes of a pattern                             *)
(***************************************************************************)
Str(s) == [t |-> "str", s |-> s]

Cls(rs) == [t |-> "cls", rs |-> rs, neg |-> FALSE]

NCls(rs) == [t |-> "cls", rs |-> rs, neg |-> TRUE]

Alt(as) == [t |-> "alt", as |-> as]

\* hi = -1 : no upper bound
Rep(r, lo, hi) == [t |-> "rep", r |-> r, lo |-> lo, hi |-> hi, lazy |-> FALSE]

RepLazy(r, lo, hi) == [t |-> "rep", r |-> r, lo |-> lo, hi |-> hi, lazy |-> TRUE]

Grp(k, r) == [t |-> "grp", k |-> k, r |-> r]

At(w) == [t |-> "at", w |-> w]

\* \s*
Ws == Rep(<<Cls(SpaceRanges)>>, 0, -1)

Fail == [ok |-> FALSE]

InCls(c, n, ic) ==
    LET hit == \/ InRanges(c, n.rs)
               \/ ic /\ (InRanges(Lower(c), n.rs) \/ InRanges(Upper(c), n.rs))
    IN  hit # n.neg

StrAt(p, s, i, ic) ==
    /\ i + Len(p) <= Len(s)
    /\ \A j \in 1..Len(p) : IF ic THEN Lower(s[i + j]) = Lower(p[j]) ELSE s[i + j] = p[j]

\* The number of characters from position i on that are in class n, at most cap.
RunLen(n, s, i, cap, ic) ==
    LET out == {k \in 1..cap : ~InCls(s[i + k], n, ic)}
    IN  IF out = {} THEN cap ELSE (CHOOSE k \in out : \A j \in out : k <= j) - 1

AtHolds(w, s, i) ==
    CASE w = "begin" -> i = 0
      [] w = "end" -> i = Len(s) \/ (i = Len(s) - 1 /\ s[Len(s)] = 10)
      [] w = "boundary" ->
            LET before == i > 0 /\ InRanges(s[i], WordRanges)
                after == i < Len(s) /\ InRanges(s[i + 1], WordRanges)
            IN  before # after

(***************************************************************************)
(* The matcher.  Try(items, s, i, g, ic) matches the item list at position *)
(* i (the characters before i are consumed) and returns the first match in *)
(* priority order, [ok, e, g] with e the end position and g the groups, or *)
(* Fail.  The rest of the pattern is the continuation, so a repeat or an   *)
(* alternative gives way exactly when what follows cannot match.           *)
(***************************************************************************)
RECURSIVE Try(_, _, _, _, _)
RECURSIVE TryAlt(_, _, _, _, _, _, _)
RECURSIVE TryCount(_, _, _, _, _, _, _, _)

\* The first count k of repeated characters, from a to b in priority order
\* (downwards when greedy, upwards when lazy), after which the rest matches.
\* The range is halved rather than walked, which keeps the evaluation shallow.
TryCount(rest, s, i, a, b, lazy, g, ic) ==
    IF a = b THEN Try(rest, s, i + a, g, ic)
    ELSE LET mid == IF lazy THEN (a + b) \div 2 ELSE (a + b + 1) \div 2
             Then(first) ==
                 IF first.ok THEN first
                 ELSE TryCount(rest, s, i, IF lazy THEN mid + 1 ELSE mid - 1, b, lazy, g, ic)
         IN  Then(TryCount(rest, s, i, a, mid, lazy, g, ic))

TryAlt(as, k, rest, s, i, g, ic) ==
    IF k > Len(as) THEN Fail
    ELSE LET Then(r) == IF r.ok THEN r ELSE TryAlt(as, k + 1, rest, s, i, g, ic)
         IN  Then(Try(as[k] \o rest, s, i, g, ic))

Try(items, s, i, g, ic) ==
    IF items = <<>> THEN [ok |-> TRUE, e |-> i, g |-> g]
    ELSE
    LET h == Head(items)
        rest == Tail(items)
    IN  CASE h.t = "str" ->
                IF StrAt(h.s, s, i, ic) THEN Try(rest, s, i + Len(h.s), g, ic) ELSE Fail
          [] h.t = "cls" ->
                IF i < Len(s) /\ InCls(s[i + 1], h, ic)
                THEN Try(rest, s, i + 1, g, ic) ELSE Fail
          [] h.t = "at" ->
                IF AtHolds(h.w, s, i) THEN Try(rest, s, i, g, ic) ELSE Fail
          [] h.t = "alt" -> TryAlt(h.as, 1, rest, s, i, g, ic)
          [] h.t = "grp" ->
                Try(h.r \o <<[t |-> "close", k |-> h.k, b |-> i]>> \o rest, s, i, g, ic)
          [] h.t = "close" ->
                Try(rest, s, i, (h.k :> <<h.b, i>>) @@ g, ic)
          [] h.t = "rep" ->
                IF Len(h.r) = 1 /\ h.r[1].t = "cls"
                THEN \* a repeated character class: its longest run, then shorter ones
                     LET room == Len(s) - i
                         cap == IF h.hi < 0 \/ h.hi > room THEN room ELSE h.hi
                         Run(n) ==
                             IF n < h.lo THEN Fail
                             ELSE IF h.lazy THEN TryCount(rest, s, i, h.lo, n, TRUE, g, ic)
                             ELSE TryCount(rest, s, i, n, h.lo, FALSE, g, ic)
                     IN  Run(RunLen(h.r[1], s, i, cap, ic))
                ELSE LET again == [h EXCEPT !.lo = IF h.lo > 1 THEN h.lo - 1 ELSE 0,
                                            !.hi = IF h.hi < 0 THEN h.hi ELSE h.hi - 1]
                         more == IF h.hi = 0 THEN Fail
                                 ELSE Try(h.r \o <<again>> \o rest, s, i, g, ic)
                         stop == IF h.lo = 0 THEN Try(rest, s, i, g, ic) ELSE Fail
                     IN  IF h.lazy
                         THEN IF stop.ok THEN stop ELSE more
                         ELSE IF more.ok THEN more ELSE stop

\* The leftmost match [ok, b, e, g] that starts at a position of lo..hi (the
\* range is halved rather than walked).
RECURSIVE SearchIn(_, _, _, _, _)
SearchIn(re, s, lo, hi, ic) ==
    IF lo > hi THEN Fail
    ELSE IF lo = hi
    THEN LET Here(r) == IF r.ok THEN [ok |-> TRUE, b |-> lo, e |-> r.e, g |-> r.g] ELSE Fail
         IN  Here(Try(re, s, lo, <<>>, ic))
    ELSE LET mid == (lo + hi) \div 2
             Then(left) == IF left.ok THEN left ELSE SearchIn(re, s, mid + 1, hi, ic)
         IN  Then(SearchIn(re, s, lo, mid, ic))

\* What every match of an item list has in it: a set of needs, each need a
\* set of strings and classes of which one occurs in the match.
RECURSIVE Needs(_, _)
Needs(items, k) ==
    IF k > Len(items) THEN {}
    ELSE LET h == items[k]
             own == CASE h.t = "str" -> IF h.s = <<>> THEN {} ELSE {{h}}
                      [] h.t = "cls" -> {{h}}
                      [] h.t = "grp" -> Needs(h.r, 1)
                      [] h.t = "rep" -> IF h.lo >= 1 THEN Needs(h.r, 1) ELSE {}
                      [] h.t = "alt" ->
                            IF \E a \in 1..Len(h.as) : Needs(h.as[a], 1) = {} THEN {}
                            ELSE {UNION {LET ns == Needs(h.as[a], 1)
                                         IN  IF \E n \in ns : \A x \in n : x.t = "str"
                                             THEN CHOOSE n \in ns : \A x \in n : x.t = "str"
                                             ELSE CHOOSE n \in ns : TRUE
                                         : a \in 1..Len(h.as)}}
                      [] OTHER -> {}
         IN  own \cup Needs(items, k + 1)

\* re.search from position i on: no match when something that a match needs
\* does not occur from i on, and the leftmost match otherwise
SearchFrom(re, s, i, ic) ==
    LET Occurs(a) ==
            IF a.t = "str" THEN \E k \in i..(Len(s) - Len(a.s)) : StrAt(a.s, s, k, ic)
            ELSE \E k \in (i + 1)..Len(s) : InCls(s[k], a, ic)
    IN  IF \E need \in Needs(re, 1) : \A a \in need : ~Occurs(a) THEN Fail
        ELSE SearchIn(re, s, i, Len(s), ic)

\* re.search(re, s) and re.search(re, s, flags=re.IGNORECASE)
Search(re, s) == SearchFrom(re, s, 0, FALSE)

SearchI(re, s) == SearchFrom(re, s, 0, TRUE)

\* m.group(k), m.group(0) the whole match
Group(m, s, k) ==
    IF k = 0 THEN SubSeq(s, m.b + 1, m.e)
    ELSE IF k \in DOMAIN m.g THEN SubSeq(s, m.g[k][1] + 1, m.g[k][2])
    ELSE None

\* The replacement template of re.sub: code points, and -k for \k.
RECURSIVE Expand(_, _, _)
Expand(repl, m, s) ==
    IF repl = <<>> THEN <<>>
    ELSE (IF Head(repl) < 0 THEN Group(m, s, 0 - Head(repl)) ELSE <<Head(repl)>>)
         \o Expand(Tail(repl), m, s)

\* re.sub(re, repl, s): the non-overlapping matches from left to right.
RECURSIVE SubFrom(_, _, _, _, _)
SubFrom(re, repl, s, pos, ic) ==
    LET From(m) ==
            IF ~m.ok THEN SubSeq(s, pos + 1, Len(s))
            ELSE IF m.e > m.b
            THEN SubSeq(s, pos + 1, m.b) \o Expand(repl, m, s) \o SubFrom(re, repl, s, m.e, ic)
            ELSE \* an empty match: replace, copy one character, go on
                 SubSeq(s, pos + 1, m.b) \o Expand(repl, m, s)
                 \o (IF m.b < Len(s)
                     THEN <<s[m.b + 1]>> \o SubFrom(re, repl, s, m.b + 1, ic)
                     ELSE <<>>)
    IN  From(SearchFrom(re, s, pos, ic))

Sub(re, repl, s) == SubFrom(re, repl, s, 0, FALSE)

\* len(re.findall(re, s)) from position pos on
RECURSIVE CountFrom(_, _, _, _)
CountFrom(re, s, pos, ic) ==
    LET From(m) ==
            IF ~m.ok THEN 0
            ELSE 1 + (IF m.e > m.b THEN CountFrom(re, s, m.e, ic)
                      ELSE IF m.b < Len(s) THEN CountFrom(re, s, m.b + 1, ic) ELSE 0)
    IN  From(SearchFrom(re, s, pos, ic))

(***************************************************************************)
(* classify_rules.normalize_text                                           *)
(***************************************************************************)
\* unicodedata.normalize("NFKC", .) on the characters of the texts: a
\* full-width ASCII form becomes its ASCII character, the ideographic space a
\* space, the half-width middle dot the katakana middle dot, the ellipsis
\* three full stops; every other character of the texts is its own NFKC form.
NFKCChar(c) ==
    IF 65281 <= c /\ c <= 65374 THEN <<c - 65248>>
    ELSE IF c = 12288 (* 　 *) THEN <<32>>
    ELSE IF c = 65381 (* ･ *) THEN <<12539 (* ・ *)>>
    ELSE IF c = 8230 (* … *) THEN <<46, 46, 46>>
    ELSE <<c>>

RECURSIVE NFKC(_)
NFKC(s) ==
    IF Len(s) = 0 THEN <<>>
    ELSE IF Len(s) = 1 THEN NFKCChar(s[1])
    ELSE LET mid == Len(s) \div 2
         IN  NFKC(SubSeq(s, 1, mid)) \o NFKC(SubSeq(s, mid + 1, Len(s)))

\* The rewriting steps of normalize_text in source order; a str.replace is
\* the re.sub of its literal.
NORMALIZE_RULES == <<
    [re |-> <<Str(<<12288>> (* 　 *))>>, to |-> <<32>> (*   *)],
    [re |-> <<Rep(<<Cls({<<32, 32>>, <<9, 9>>})>>, 1, -1)>> (* re: [ \t]+ *), to |-> <<32>> (*   *)],
    [re |-> <<Str(<<24739>>), Ws, Str(<<32773>>)>> (* re: 患\s*者 *), to |-> <<24739, 32773>> (* 患者 *)],
    [re |-> <<Str(<<34987>>), Ws, Str(<<20445>>), Ws, Str(<<38522>>), Ws, Str(<<32773>>)>> (* re: 被\s*保\s*険\s*者 *), to |-> <<34987, 20445, 38522, 32773>> (* 被保険者 *)],
    [re |-> <<Str(<<20445>>), Ws, Str(<<38522>>), Ws, Str(<<21307>>)>> (* re: 保\s*険\s*医 *), to |-> <<20445, 38522, 21307>> (* 保険医 *)],
    [re |-> <<Str(<<21307>>), Ws, Str(<<24107>>)>> (* re: 医\s*師 *), to |-> <<21307, 24107>> (* 医師 *)],
    [re |-> <<Str(<<20303>>), Ws, Str(<<25152>>)>> (* re: 住\s*所 *), to |-> <<20303, 25152>> (* 住所 *)],
    [re |-> <<Grp(1, <<Alt(<<<<Str(<<24739, 32773>>)>>, <<Str(<<34987, 20445, 38522, 32773>>)>>, <<Str(<<20445, 38522, 21307>>)>>, <<Str(<<21307, 24107>>)>>>>)>>), Ws, Str(<<27663>>), Ws, Rep(<<Str(<<25152>>), Ws>>, 0, 1), Str(<<21517>>)>> (* re: (患者|被保険者|保険医|医師)\s*氏\s*(?:所\s* )?名 *),
     to |-> <<-1>> \o <<27663, 21517>> (* 氏名 *)],
    [re |-> <<Str(<<27663>>), Ws, Rep(<<Str(<<25152>>), Ws>>, 0, 1), Str(<<21517>>)>> (* re: 氏\s*(?:所\s* )?名 *), to |-> <<27663, 21517>> (* 氏名 *)],
    [re |-> <<Str(<<37756>>), Ws, Str(<<28792>>), Ws, Str(<<38498>>)>> (* re: 鍼\s*灸\s*院 *), to |-> <<37756, 28792, 38498>> (* 鍼灸院 *)],
    [re |-> <<Str(<<37341>>), Ws, Str(<<28792>>), Ws, Str(<<38498>>)>> (* re: 針\s*灸\s*院 *), to |-> <<37341, 28792, 38498>> (* 針灸院 *)],
    [re |-> <<Str(<<25972>>), Ws, Str(<<39592>>), Ws, Str(<<38498>>)>> (* re: 整\s*骨\s*院 *), to |-> <<25972, 39592, 38498>> (* 整骨院 *)],
    [re |-> <<Str(<<25509>>), Ws, Str(<<39592>>), Ws, Str(<<38498>>)>> (* re: 接\s*骨\s*院 *), to |-> <<25509, 39592, 38498>> (* 接骨院 *)],
    [re |-> <<Str(<<12463>>), Ws, Str(<<12522>>), Ws, Str(<<12491>>), Ws, Str(<<12483>>), Ws, Str(<<12463>>)>> (* re: ク\s*リ\s*ニ\s*ッ\s*ク *), to |-> <<12463, 12522, 12491, 12483, 12463>> (* クリニック *)],
    [re |-> <<Str(<<35370>>), Ws, Str(<<21839>>), Ws, Str(<<12510>>), Ws, Str(<<12483>>), Ws, Str(<<12469>>), Ws, Str(<<12540>>), Ws, Str(<<12472>>)>> (* re: 訪\s*問\s*マ\s*ッ\s*サ\s*ー\s*ジ *), to |-> <<35370, 21839, 12510, 12483, 12469, 12540, 12472>> (* 訪問マッサージ *)],
    [re |-> <<Str(<<30456>>), Ws, Str(<<35527>>), Ws, Str(<<25903>>), Ws, Str(<<25588>>), Ws, Str(<<20107>>), Ws, Str(<<26989>>), Ws, Str(<<25152>>)>> (* re: 相\s*談\s*支\s*援\s*事\s*業\s*所 *), to |-> <<30456, 35527, 25903, 25588, 20107, 26989, 25152>> (* 相談支援事業所 *)],
    [re |-> <<Str(<<35336>>), Ws, Str(<<30011>>), Ws, Str(<<20316>>), Ws, Str(<<25104>>), Ws, Str(<<25285>>), Ws, Str(<<24403>>), Ws, Str(<<32773>>)>> (* re: 計\s*画\s*作\s*成\s*担\s*当\s*者 *), to |-> <<35336, 30011, 20316, 25104, 25285, 24403, 32773>> (* 計画作成担当者 *)],
    [re |-> <<Str(<<30003>>), Ws, Str(<<35531>>), Ws, Str(<<32773>>), Ws, Str(<<12398>>), Ws, Str(<<29694>>), Ws, Str(<<29366>>)>> (* re: 申\s*請\s*者\s*の\s*現\s*状 *), to |-> <<30003, 35531, 32773, 12398, 29694, 29366>> (* 申請者の現状 *)],
    [re |-> <<Str(<<22522>>), Ws, Str(<<26412>>), Ws, Str(<<24773>>), Ws, Str(<<22577>>)>> (* re: 基\s*本\s*情\s*報 *), to |-> <<22522, 26412, 24773, 22577>> (* 基本情報 *)],
    [re |-> <<Str(<<36865>>), Ws, Str(<<20184>>), Ws, Str(<<29366>>)>> (* re: 送\s*付\s*状 *), to |-> <<36865, 20184, 29366>> (* 送付状 *)],
    [re |-> <<Str(<<27171>> (* 樣 *))>>, to |-> <<27096>> (* 様 *)],
    [re |-> <<Str(<<24739, 32773, 27096, 27663, 21517>> (* 患者様氏名 *))>>, to |-> <<24739, 32773, 27663, 21517>> (* 患者氏名 *)],
    [re |-> <<Str(<<24739, 32773, 27096, 21517>> (* 患者様名 *))>>, to |-> <<24739, 32773, 21517>> (* 患者名 *)],
    [re |-> <<Grp(1, <<Str(<<12473, 12479, 12483, 12501>>)>>), Ws, Str(<<21517>>)>> (* re: (スタッフ)\s*名 *), to |-> <<-1>>],
    [re |-> <<Grp(1, <<Alt(<<<<Str(<<27835, 30274, 38498>>)>>, <<Str(<<26045, 34899, 25152>>)>>, <<Str(<<20107, 26989, 25152>>)>>, <<Str(<<12463, 12522, 12491, 12483, 12463>>)>>, <<Str(<<21307, 38498>>)>>, <<Str(<<30149, 38498>>)>>>>)>>), Ws, Str(<<21517>>)>> (* re: (治療院|施術所|事業所|クリニック|医院|病院)\s*名 *),
     to |-> <<-1>> \o <<21517>> (* 名 *)] >>

RECURSIVE ApplyRules(_, _, _)
ApplyRules(rules, k, t) ==
    IF k > Len(rules) THEN t
    ELSE LET t1 == Sub(rules[k].re, rules[k].to, t)
         IN  \* the test makes TLC compute t1 here, before the next rule reads it
             IF Len(t1) >= 0 THEN ApplyRules(rules, k + 1, t1) ELSE t1

normalize_text(t) ==
    IF t = <<>> THEN <<>> ELSE ApplyRules(NORMALIZE_RULES, 1, NFKC(t))

(***************************************************************************)
(* classify_rules.detect_category                                          *)
(***************************************************************************)
CAT_CONSENT == <<21516, 24847, 26360>> (* 同意書 *)

CAT_INSURANCE == <<20445, 38522, 35388>> (* 保険証 *)

CAT_REPORT == <<27835, 30274, 22577, 21578, 26360>> (* 治療報告書 *)

CAT_PATIENTLIST == <<24739, 32773, 12522, 12473, 12488>> (* 患者リスト *)

CAT_INVOICE == <<35531, 27714, 26360>> (* 請求書 *)

CAT_RECORD == <<23455, 32318>> (* 実績 *)

CAT_OTHER == <<12381, 12398, 20182>> (* その他 *)

\* The keyword table, in the order of the dict: max() returns the first
\* category of the highest score.
KEYWORDS == <<
    [cat |-> CAT_CONSENT, pats |-> <<
        <<Str(<<21516, 24847, 26360>>)>> (* re: 同意書 *), <<Str(<<21516, 24847>>)>> (* re: 同意 *), <<Str(<<25215, 35582>>)>> (* re: 承諾 *), <<Str(<<32626, 21517>>)>> (* re: 署名 *), <<Str(<<12469, 12452, 12531>>)>> (* re: サイン *), <<Str(<<67, 111, 110, 115, 101, 110, 116>>)>> (* re: Consent *) >>],
    [cat |-> CAT_INSURANCE, pats |-> <<
        <<Str(<<20581, 24247, 20445, 38522, 35388>>)>> (* re: 健康保険証 *), <<At("boundary"), Str(<<20445, 38522, 35388>>), At("boundary")>> (* re: \b保険証\b *), <<Str(<<20445, 38522, 32773, 30058, 21495>>)>> (* re: 保険者番号 *), <<Str(<<35352, 21495>>), Rep(<<Cls({<<12539, 12539>>} \cup SpaceRanges)>>, 0, -1), Str(<<30058, 21495>>)>> (* re: 記号[・\s]*番号 *),
        <<Str(<<35352, 21495>>), Ws, Rep(<<Cls({<<58, 58>>, <<65306, 65306>>})>>, 0, 1), Ws, Rep(<<NCls(SpaceRanges)>>, 1, -1)>> (* re: 記号\s*[:：]?\s*\S+ *), <<Str(<<30058, 21495>>), Ws, Rep(<<Cls({<<58, 58>>, <<65306, 65306>>})>>, 0, 1), Ws, Rep(<<NCls(SpaceRanges)>>, 1, -1)>> (* re: 番号\s*[:：]?\s*\S+ *), <<Str(<<26377, 21177, 26399, 38480>>)>> (* re: 有効期限 *),
        <<Str(<<20132, 20184, 26085>>)>> (* re: 交付日 *), <<Str(<<30330, 34892, 32773>>)>> (* re: 発行者 *), <<Str(<<20445, 38522, 32773, 21517>>)>> (* re: 保険者名 *) >>],
    [cat |-> CAT_REPORT, pats |-> <<
        <<Str(<<27835, 30274, 22577, 21578, 26360>>)>> (* re: 治療報告書 *), <<Str(<<26045, 34899, 22577, 21578, 26360>>)>> (* re: 施術報告書 *), <<Str(<<32076, 36942, 22577, 21578>>)>> (* re: 経過報告 *), <<Str(<<22577, 21578, 23550, 35937, 24180, 26376>>)>> (* re: 報告対象年月 *),
        <<Str(<<25152, 24863>>)>> (* re: 所感 *), <<Str(<<30446, 27161>>)>> (* re: 目標 *), <<Alt(<<<<Str(<<29694, 29366, 32173, 25345>>)>>, <<Str(<<29694, 22312, 12398, 29366, 24907>>)>>, <<Str(<<24403, 21021, 12363, 12425, 12398, 29366, 24907, 12398, 22793, 21270>>)>>>>)>> (* re: 現状維持|現在の状態|当初からの状態の変化 *),
        <<Str(<<21021, 30274, 26085>>)>> (* re: 初療日 *), <<Alt(<<<<Str(<<24448, 35386, 26085>>)>>, <<Str(<<35370, 21839, 26085>>)>>, <<Str(<<25391, 26367, 35370, 21839, 26085>>)>>, <<Str(<<20241, 35386, 26085>>)>>>>)>> (* re: 往診日|訪問日|振替訪問日|休診日 *),
        <<Alt(<<<<Str(<<12510, 12483, 12469, 12540, 12472>>)>>, <<Str(<<26045, 34899>>)>>, <<Str(<<37325, 28857, 37096, 20301>>)>>>>)>> (* re: マッサージ|施術|重点部位 *),
        <<Alt(<<<<Str(<<30140, 30171>>)>>, <<Str(<<82, 79, 77>>)>>, <<Str(<<27231, 33021, 35413, 20385>>)>>, <<Str(<<20877, 35413, 20385>>)>>, <<Str(<<27835, 30274, 35336, 30011>>)>>, <<Str(<<26045, 34899, 35336, 30011>>)>>>>)>> (* re: 疼痛|ROM|機能評価|再評価|治療計画|施術計画 *) >>],
    [cat |-> CAT_PATIENTLIST, pats |-> <<
        <<Str(<<24739, 32773, 12522, 12473, 12488>>)>> (* re: 患者リスト *), <<Str(<<24739, 32773, 19968, 35239>>)>> (* re: 患者一覧 *), <<Str(<<80, 97, 116, 105, 101, 110, 116>>), Ws, Str(<<76, 105, 115, 116>>)>> (* re: Patient\s*List *), <<Str(<<24739, 32773, 21488, 24115>>)>> (* re: 患者台帳 *),
        <<Str(<<12501, 12455, 12452, 12473, 12471, 12540, 12488>>)>> (* re: フェイスシート *), <<Str(<<21033, 29992, 32773, 24773, 22577>>)>> (* re: 利用者情報 *), <<Str(<<12372, 21033, 29992, 32773, 27096>>)>> (* re: ご利用者様 *),
        <<Str(<<20171, 35703, 29366, 27841>>)>> (* re: 介護状況 *), <<Str(<<20837, 23621, 32773, 24773, 22577>>)>> (* re: 入居者情報 *), <<Str(<<35201, 20171, 35703>>)>> (* re: 要介護 *), <<Str(<<35469, 23450, 26085>>)>> (* re: 認定日 *),
        <<Str(<<38651, 35441, 30058, 21495>>)>> (* re: 電話番号 *), <<Str(<<20303, 25152>>)>> (* re: 住所 *), <<Str(<<29983, 24180, 26376, 26085>>)>> (* re: 生年月日 *),
        <<Str(<<12522, 12495, 12499, 12522, 12486, 12540, 12471, 12519, 12531, 32207, 21512, 23455, 26045, 35336, 30011, 26360>>)>> (* re: リハビリテーション総合実施計画書 *), <<Str(<<21463, 20837, 20381, 38972, 31080>>)>> (* re: 受入依頼票 *) >>],
    [cat |-> CAT_INVOICE, pats |-> <<
        <<At("boundary"), Str(<<35531, 27714, 26360>>), At("boundary")>> (* re: \b請求書\b *), <<At("boundary"), Str(<<73, 78, 86, 79, 73, 67, 69>>), At("boundary")>> (* re: \bINVOICE\b *),
        <<Str(<<35531, 27714, 26085>>)>> (* re: 請求日 *), <<Str(<<35531, 27714, 26360, 30058, 21495>>)>> (* re: 請求書番号 *), <<Alt(<<<<Str(<<35531, 27714, 37329, 38989>>)>>, <<Str(<<12372, 35531, 27714, 37329, 38989>>)>>>>)>> (* re: 請求金額|ご請求金額 *),
        <<Alt(<<<<Str(<<25391, 36796, 20808>>)>>, <<Str(<<12362, 25391, 36796>>)>>>>)>> (* re: 振込先|お振込 *), <<Alt(<<<<Str(<<37504, 34892>>)>>, <<Str(<<25903, 24215>>)>>, <<Str(<<21475, 24231, 30058, 21495>>)>>>>)>> (* re: 銀行|支店|口座番号 *),
        <<Str(<<20214, 21517>>)>> (* re: 件名 *),
        <<Str(<<20869, 35379>>)>> (* re: 内訳 *), <<Str(<<25968, 37327>>)>> (* re: 数量 *), <<Str(<<21336, 20385>>)>> (* re: 単価 *), <<Str(<<28040, 36027, 31246>>)>> (* re: 消費税 *), <<Str(<<21512, 35336>>)>> (* re: 合計 *),
        <<Alt(<<<<Str(<<21512, 35336, 37329, 38989>>)>>, <<Str(<<12372, 35531, 27714, 21512, 35336>>)>>>>)>> (* re: 合計金額|ご請求合計 *) >>],
    [cat |-> CAT_RECORD, pats |-> <<
        <<Str(<<30274, 39178, 36027, 25903, 32102, 30003, 35531, 26360>>)>> (* re: 療養費支給申請書 *), <<Alt(<<<<Str(<<12354, 12435, 12414>>)>>, <<Str(<<12510, 12483, 12469, 12540, 12472>>)>>>>)>> (* re: あんま|マッサージ *), <<Str(<<26045, 34899, 20869, 35379>>)>> (* re: 施術内訳 *),
        <<Str(<<26045, 34899>>), Alt(<<<<Str(<<26085>>)>>, <<Str(<<24180, 26376, 26085>>)>>>>)>> (* re: 施術日|施術年月日 *), <<Str(<<24448, 30274>>)>> (* re: 往療 *), <<Str(<<36890, 38498>>)>> (* re: 通院 *), <<Alt(<<<<Str(<<26045, 34899, 22238, 25968>>)>>, <<Str(<<22238, 25968>>)>>>>)>> (* re: 施術回数|回数 *),
        <<Str(<<21336, 20385>>)>> (* re: 単価 *), <<Alt(<<<<Str(<<23567, 35336>>)>>, <<Str(<<21512, 35336>>)>>, <<Str(<<32207, 35336>>)>>, <<Str(<<32207, 36027, 29992>>)>>>>)>> (* re: 小計|合計|総計|総費用 *), <<Str(<<26045, 34899>>), Alt(<<<<Str(<<32773>>)>>, <<Str(<<31649, 29702, 32773>>)>>>>)>> (* re: 施術者|施術管理者 *),
        <<Str(<<23529, 26619>>)>> (* re: 審査 *), <<Str(<<20844, 36027, 36000, 25285>>)>> (* re: 公費負担 *), <<Str(<<21463, 32102, 32773, 30058, 21495>>)>> (* re: 受給者番号 *), <<Str(<<25688, 35201>>)>> (* re: 摘要 *) >>] >>

STRONG_PATIENTLIST == <<
    <<Str(<<24739, 32773>>), Grp(1, <<Alt(<<<<Str(<<19968, 35239>>)>>, <<Str(<<21488, 24115>>)>>>>)>>)>> (* re: 患者(一覧|台帳) *), <<Str(<<80, 97, 116, 105, 101, 110, 116>>), Ws, Str(<<76, 105, 115, 116>>)>> (* re: Patient\s*List *), <<Str(<<12501, 12455, 12452, 12473, 12471, 12540, 12488>>)>> (* re: フェイスシート *),
    <<Str(<<21033, 29992, 32773, 22522, 26412, 24773, 22577>>)>> (* re: 利用者基本情報 *), <<Str(<<22522, 26412, 24773, 22577>>)>> (* re: 基本情報 *), <<Str(<<12372, 21033, 29992, 32773, 27096>>)>> (* re: ご利用者様 *), <<Str(<<30003, 35531, 32773, 12398, 29694, 29366>>)>> (* re: 申請者の現状 *),
    <<Str(<<12522, 12495, 12499, 12522, 12486, 12540, 12471, 12519, 12531, 32207, 21512, 23455, 26045, 35336, 30011, 26360>>)>> (* re: リハビリテーション総合実施計画書 *), <<Str(<<21463, 20837, 20381, 38972, 31080>>)>> (* re: 受入依頼票 *) >>

\* matched with re.DOTALL: the dot of the last pattern crosses line breaks
STRONG_REPORT == <<
    <<Str(<<27835, 30274, 22577, 21578, 26360>>)>> (* re: 治療報告書 *), <<Str(<<26045, 34899, 22577, 21578, 26360>>)>> (* re: 施術報告書 *), <<Str(<<32076, 36942, 22577, 21578>>)>> (* re: 経過報告 *),
    <<Str(<<22577, 21578, 23550, 35937, 24180, 26376>>), Rep(<<NCls({})>>, 0, -1), Alt(<<<<Str(<<30446, 27161>>)>>, <<Str(<<25152, 24863>>)>>, <<Str(<<29694, 29366>>)>>>>)>> (* re: (?:報告対象年月).*(?:目標|所感|現状) *) >>

\* any(re.search(pat, t, flags=re.IGNORECASE) for pat in pats)
AnyMatchI(pats, t) == \E k \in 1..Len(pats) : SearchI(pats[k], t).ok

\* scores[cat]: the sum over the category's patterns of len(re.findall(pat, t,
\* flags=re.IGNORECASE))
RECURSIVE ScoreFrom(_, _, _)
ScoreFrom(pats, k, t) ==
    IF k > Len(pats) THEN 0
    ELSE CountFrom(pats[k], t, 0, TRUE) + ScoreFrom(pats, k + 1, t)

Scores(t) == [c \in 1..Len(KEYWORDS) |-> ScoreFrom(KEYWORDS[c].pats, 1, t)]

\* max(scores, key=...): the first key of the highest score
Best(scores) ==
    CHOOSE c \in DOMAIN scores :
        /\ \A d \in DOMAIN scores : scores[d] <= scores[c]
        /\ \A d \in DOMAIN scores : d < c => scores[d] < scores[c]

\* a variant without the tie-breaks
ScoredCategory_BestOnly(t) ==
    LET Pick(scores, b) == IF scores[b] > 0 THEN KEYWORDS[b].cat ELSE CAT_OTHER
        With(scores) == Pick(scores, Best(scores))
    IN  With(Scores(t))

\* a variant without the tie-break between record and patient roster
ScoredCategory_NoRoster(t) ==
    IF Search(<<Grp(1, <<Alt(<<<<Str(<<22577, 21578, 23550, 35937, 24180, 26376>>)>>, <<Str(<<25152, 24863>>)>>, <<Str(<<30446, 27161>>)>>, <<Str(<<21021, 30274, 26085>>)>>, <<Str(<<24448, 35386, 26085>>)>>>>)>>)>> (* re: (報告対象年月|所感|目標|初療日|往診日) *), t).ok THEN CAT_REPORT
    ELSE ScoredCategory_BestOnly(t)

\* detect_category after its strong-signal checks: scoring and tie-breaks.
ScoredCategory(t) ==
    LET Pick(scores, b) ==
          LET best == KEYWORDS[b].cat
          IN  IF /\ best = CAT_RECORD
                 /\ Search(<<Grp(1, <<Alt(<<<<Str(<<30456, 35527, 25903, 25588>>)>>, <<Str(<<30456, 35527, 25903, 25588, 20107, 26989, 25152>>)>>, <<Str(<<35336, 30011, 20316, 25104, 25285, 24403, 32773>>)>>, <<Str(<<22522, 26412, 24773, 22577>>)>>>>)>>)>> (* re: (相談支援|相談支援事業所|計画作成担当者|基本情報) *), t).ok
                 /\ ~Search(<<Grp(1, <<Str(<<30274, 39178, 36027>>), Alt(<<<<>>, <<Str(<<25903, 32102, 30003, 35531, 26360>>)>>>>)>>)>> (* re: (療養費|療養費支給申請書) *), t).ok
              THEN CAT_PATIENTLIST
              ELSE IF /\ best = CAT_INVOICE
                      /\ ~SearchI(<<Grp(1, <<Alt(<<<<Str(<<35531, 27714, 26360>>)>>, <<Str(<<73, 78, 86, 79, 73, 67, 69>>)>>, <<Str(<<35531, 27714, 26360, 30058, 21495>>)>>, <<Str(<<35531, 27714, 37329, 38989>>)>>, <<Str(<<12372, 35531, 27714, 37329, 38989>>)>>, <<Str(<<25391, 36796, 20808>>)>>, <<Str(<<20869, 35379>>)>>, <<Str(<<21512, 35336, 37329, 38989>>)>>>>)>>)>> (* re: (請求書|INVOICE|請求書番号|請求金額|ご請求金額|振込先|内訳|合計金額) *), t).ok
                      /\ Search(<<Grp(1, <<Alt(<<<<Str(<<22577, 21578, 23550, 35937, 24180, 26376>>)>>, <<Str(<<25152, 24863>>)>>, <<Str(<<30446, 27161>>)>>, <<Str(<<21021, 30274, 26085>>)>>, <<Str(<<24448, 35386, 26085>>)>>, <<Str(<<26045, 34899>>)>>, <<Str(<<12510, 12483, 12469, 12540, 12472>>)>>>>)>>)>> (* re: (報告対象年月|所感|目標|初療日|往診日|施術|マッサージ) *), t).ok
              THEN CAT_REPORT
              ELSE IF /\ best \in {CAT_RECORD, CAT_PATIENTLIST}
                      /\ Search(<<Grp(1, <<Alt(<<<<Str(<<22577, 21578, 23550, 35937, 24180, 26376>>)>>, <<Str(<<25152, 24863>>)>>, <<Str(<<30446, 27161>>)>>, <<Str(<<21021, 30274, 26085>>)>>, <<Str(<<24448, 35386, 26085>>)>>>>)>>)>> (* re: (報告対象年月|所感|目標|初療日|往診日) *), t).ok
              THEN CAT_REPORT
              ELSE IF scores[b] > 0 THEN best ELSE CAT_OTHER

        With(scores) == Pick(scores, Best(scores))
    IN  With(Scores(t))

\* A detect_category without its strong-signal checks.
CategoryOf_ScoresOnly(t) == ScoredCategory(t)

\* The category of an already normalized text.
CategoryOf(t) ==
    IF AnyMatchI(STRONG_PATIENTLIST, t) THEN CAT_PATIENTLIST
    ELSE IF AnyMatchI(STRONG_REPORT, t) THEN CAT_REPORT
    ELSE ScoredCategory(t)

detect_category(text) == CategoryOf(normalize_text(text))

(***************************************************************************)
(* String helpers of the extractors                                        *)
(***************************************************************************)
\* re.finditer(re, s): the non-overlapping matches from position pos on
RECURSIVE FindAllFrom(_, _, _)
FindAllFrom(re, s, pos) ==
    LET From(m) ==
            IF ~m.ok THEN <<>>
            ELSE <<m>> \o (IF m.e > m.b THEN FindAllFrom(re, s, m.e)
                           ELSE IF m.b < Len(s) THEN FindAllFrom(re, s, m.b + 1) ELSE <<>>)
    IN  From(SearchFrom(re, s, pos, FALSE))

\* s.strip(chars), s.rstrip(chars) and s.strip()
StripChars(s, cs) ==
    LET keep == {k \in 1..Len(s) : s[k] \notin cs}
    IN  IF keep = {} THEN <<>>
        ELSE SubSeq(s, CHOOSE k \in keep : \A j \in keep : k <= j,
                       CHOOSE k \in keep : \A j \in keep : k >= j)

RStripChars(s, cs) ==
    LET keep == {k \in 1..Len(s) : s[k] \notin cs}
    IN  IF keep = {} THEN <<>>
        ELSE SubSeq(s, 1, CHOOSE k \in keep : \A j \in keep : k >= j)

Strip(s) ==
    LET keep == {k \in 1..Len(s) : ~InRanges(s[k], SpaceRanges)}
    IN  IF keep = {} THEN <<>>
        ELSE SubSeq(s, CHOOSE k \in keep : \A j \in keep : k <= j,
                       CHOOSE k \in keep : \A j \in keep : k >= j)

\* s[a:b] with 0 <= a
Slice(s, a, b) == SubSeq(s, a + 1, IF b < Len(s) THEN b ELSE Len(s))

\* int(s) of a string of digits, and the decimal form of a natural number
RECURSIVE ToInt(_)
ToInt(s) ==
    IF s = <<>> THEN 0
    ELSE LET c == s[Len(s)]
             r == CHOOSE q \in DigitRanges : q[1] <= c /\ c <= q[2]
         IN  10 * ToInt(SubSeq(s, 1, Len(s) - 1)) + ((c - r[1]) % 10)

RECURSIVE Dec(_)
Dec(n) == IF n < 10 THEN <<48 + n>> ELSE Dec(n \div 10) \o <<48 + (n % 10)>>

\* f"{n:0wd}"
RECURSIVE Pad(_, _)
Pad(d, w) == IF Len(d) >= w THEN d ELSE Pad(<<48>> \o d, w)

\* x or y on strings and None
Or(x, y) == IF x = None \/ x = <<>> THEN y ELSE x

(***************************************************************************)
(* Name helpers                                                            *)
(***************************************************************************)
LABEL_STOP_RE == <<Alt(<<<<Str(<<29983>>), Ws, Str(<<24180>>), Ws, Str(<<26376>>), Ws, Str(<<26085>>)>>, <<Str(<<29983, 24180, 26376, 26085>>)>>, <<Str(<<24615, 21029>>)>>, <<Str(<<20303, 25152>>)>>, <<Str(<<26377, 21177, 26399, 38480>>)>>, <<Str(<<20445, 38522, 32773, 30058, 21495>>)>>, <<Str(<<34987, 20445, 38522, 32773, 30058, 21495>>)>>, <<Str(<<35352, 21495>>)>>, <<Str(<<30058, 21495>>)>>, <<Str(<<38651, 35441>>)>>, <<Str(<<84, 69, 76>>)>>, <<Str(<<70, 65, 88>>)>>, <<Str(<<20445, 38522, 21307, 27663, 21517>>)>>, <<Str(<<21307, 24107, 27663, 21517>>)>>, <<Str(<<21307, 24107, 21517>>)>>, <<Str(<<25285, 24403, 21307>>)>>, <<Str(<<30149, 38498, 21517>>)>>, <<Str(<<12463, 12522, 12491, 12483, 12463>>)>>, <<Str(<<21307, 38498>>)>>, <<Str(<<30149, 38498>>)>>, <<Str(<<26045, 34899, 32773>>)>>, <<Str(<<25285, 24403, 32773>>)>>>>)>> (* re: 生\s*年\s*月\s*日|生年月日|性別|住所|有効期限|保険者番号|被保険者番号|記号|番号|電話|TEL|FAX|保険医氏名|医師氏名|医師名|担当医|病院名|クリニック|医院|病院|施術者|担当者 *)

\* _strip_after_labels without the cut at the first label: only the strip
_strip_after_labels_NoCut(s) ==
    StripChars(s, {32, 12288, 58, 65306, 46, 45, 95, 47, 124, 44, 12289, 12290})

_strip_after_labels(s) ==
    LET Before(m) == IF m.ok THEN SubSeq(s, 1, m.b) ELSE s
    IN  StripChars(Before(Search(LABEL_STOP_RE, s)), {32, 12288, 58, 65306, 46, 45, 95, 47, 124, 44, 12289, 12290})

_clean_name_token(tok) ==
    Strip(Sub(<<Grp(1, <<Alt(<<<<Str(<<29983, 24180, 26376, 26085>>)>>, <<Str(<<24615, 21029>>)>>, <<Str(<<20303, 25152>>)>>, <<Str(<<26377, 21177, 26399, 38480>>)>>, <<Str(<<35352, 21495>>)>>, <<Str(<<30058, 21495>>)>>>>)>>), At("end")>> (* re: (生年月日|性別|住所|有効期限|記号|番号)$ *), <<>>,
          Sub(<<Grp(1, <<Alt(<<<<Str(<<27096>>)>>, <<Str(<<12373, 12414>>)>>, <<Str(<<27583>>)>>, <<Str(<<12373, 12435>>)>>>>)>>), At("end")>> (* re: (様|さま|殿|さん)$ *), <<>>, tok)))

FULLNAME_SEP == <<Grp(1, <<Rep(<<Cls({<<12353, 12435>>, <<12449, 12531>>, <<12540, 12540>>, <<19968, 40869>>, <<12293, 12293>>, <<12294, 12294>>, <<12533, 12533>>, <<12534, 12534>>, <<65, 90>>, <<97, 122>>})>>, 1, 15)>>), Rep(<<Cls({<<65381, 65381>>, <<12539, 12539>>} \cup SpaceRanges)>>, 1, -1), Grp(2, <<Rep(<<Cls({<<12353, 12435>>, <<12449, 12531>>, <<12540, 12540>>, <<19968, 40869>>, <<12293, 12293>>, <<12294, 12294>>, <<12533, 12533>>, <<12534, 12534>>, <<65, 90>>, <<97, 122>>})>>, 1, 15)>>)>> (* re: ([ぁ-んァ-ンー一-龥々〆ヵヶA-Za-z]{1,15})[\s･・]+([ぁ-んァ-ンー一-龥々〆ヵヶA-Za-z]{1,15}) *)

FULLNAME_CONTIG == <<Grp(1, <<Rep(<<Cls({<<12353, 12435>>, <<12449, 12531>>, <<12540, 12540>>, <<19968, 40869>>, <<12293, 12293>>, <<12294, 12294>>, <<12533, 12533>>, <<12534, 12534>>, <<65, 90>>, <<97, 122>>})>>, 1, 15)>>), Grp(2, <<Rep(<<Cls({<<12353, 12435>>, <<12449, 12531>>, <<12540, 12540>>, <<19968, 40869>>, <<12293, 12293>>, <<12294, 12294>>, <<12533, 12533>>, <<12534, 12534>>, <<65, 90>>, <<97, 122>>})>>, 1, 15)>>)>> (* re: ([ぁ-んァ-ンー一-龥々〆ヵヶA-Za-z]{1,15})([ぁ-んァ-ンー一-龥々〆ヵヶA-Za-z]{1,15}) *)

_join_fullname(g1, g2) ==
    Strip(Sub(<<Rep(<<Cls({<<45, 45>>, <<47, 47>>, <<46, 46>>} \cup DigitRanges)>>, 1, -1), At("end")>> (* re: [\d\-/.]+$ *), <<>>,
              _strip_after_labels(_clean_name_token(g1) \o _clean_name_token(g2))))

BAD_ANY_TOKEN == <<Grp(1, <<Alt(<<<<Str(<<12463, 12522, 12491, 12483, 12463>>)>>, <<Str(<<30149, 38498>>)>>, <<Str(<<21307, 38498>>)>>, <<Str(<<21307, 30274, 27861, 20154>>)>>, <<Str(<<27835, 30274, 38498>>)>>, <<Str(<<34220, 23616>>)>>, <<Str(<<12475, 12531, 12479, 12540>>)>>, <<Str(<<22823, 23398>>)>>, <<Str(<<36001, 22243>>)>>, <<Str(<<21332, 20250>>)>>, <<Str(<<32068, 21512>>)>>, <<Str(<<31185>>)>>, <<Str(<<24481, 20013>>)>>, <<Str(<<36020, 38498>>)>>, <<Str(<<36020, 31038>>)>>, <<Str(<<24066>>)>>, <<Str(<<21306>>)>>, <<Str(<<30010>>)>>, <<Str(<<26449>>)>>, <<Str(<<19969, 30446>>)>>, <<Str(<<30058, 22320>>)>>, <<Str(<<33624>>)>>, <<Str(<<12510, 12531, 12471, 12519, 12531>>)>>, <<Str(<<12450, 12497, 12540, 12488>>)>>, <<Str(<<12499, 12523>>)>>>>)>>)>> (* re: (クリニック|病院|医院|医療法人|治療院|薬局|センター|大学|財団|協会|組合|科|御中|貴院|貴社|市|区|町|村|丁目|番地|荘|マンション|アパート|ビル) *)

BAD_PATIENT_EXACT ==
    {<<29983, 24180, 26376, 26085>> (* 生年月日 *), <<20303, 25152>> (* 住所 *), <<38651, 35441, 30058, 21495>> (* 電話番号 *), <<38651, 35441>> (* 電話 *), <<37109, 20415, 30058, 21495>> (* 郵便番号 *), <<24739, 32773>> (* 患者 *), <<27663, 21517>> (* 氏名 *),
     <<20445, 38522, 32773, 30058, 21495>> (* 保険者番号 *), <<35352, 21495>> (* 記号 *), <<30058, 21495>> (* 番号 *)}

BAD_ANY_EXACT == {<<27663, 21517>> (* 氏名 *), <<24739, 32773>> (* 患者 *), <<21307, 24107>> (* 医師 *), <<20445, 38522, 21307>> (* 保険医 *)}

\* The definition in effect is the second one of the file (lines 113-130),
\* which replaces the first (lines 95-107) when the module is loaded.
_is_valid_person_tokens(g1, g2, role) ==
    IF Search(<<Cls(DigitRanges)>> (* re: \d *), g1).ok \/ Search(<<Cls(DigitRanges)>> (* re: \d *), g2).ok THEN FALSE
    ELSE IF Search(BAD_ANY_TOKEN, g1).ok \/ Search(BAD_ANY_TOKEN, g2).ok THEN FALSE
    ELSE IF g1 \in BAD_ANY_EXACT \/ g2 \in BAD_ANY_EXACT THEN FALSE
    ELSE IF role = "patient" /\ (g1 \in BAD_PATIENT_EXACT \/ g2 \in BAD_PATIENT_EXACT) THEN FALSE
    ELSE TRUE

ADDRESS_TOKENS == <<Grp(1, <<Alt(<<<<Str(<<37117>>)>>, <<Str(<<36947>>)>>, <<Str(<<24220>>)>>, <<Str(<<30476>>)>>, <<Str(<<24066>>)>>, <<Str(<<21306>>)>>, <<Str(<<30010>>)>>, <<Str(<<26449>>)>>, <<Str(<<19969, 30446>>)>>, <<Str(<<30058, 22320>>)>>, <<Str(<<30058>>)>>, <<Str(<<21495>>)>>, <<Str(<<37089>>)>>, <<Str(<<33624>>)>>, <<Str(<<12510, 12531, 12471, 12519, 12531>>)>>, <<Str(<<12450, 12497, 12540, 12488>>)>>, <<Str(<<12499, 12523>>)>>>>)>>)>> (* re: (都|道|府|県|市|区|町|村|丁目|番地|番|号|郡|荘|マンション|アパート|ビル) *)

_looks_addressy(s) == Search(ADDRESS_TOKENS, s).ok

(***************************************************************************)
(* classify_rules.extract_date                                             *)
(***************************************************************************)
DATE_PATTERNS == <<
    <<Grp(1, <<Str(<<50, 48>>), Rep(<<Cls(DigitRanges)>>, 2, 2)>>), Cls({<<46, 46>>, <<47, 47>>, <<24180, 24180>>, <<45, 45>>}), Grp(2, <<Rep(<<Cls(DigitRanges)>>, 1, 2)>>), Cls({<<46, 46>>, <<47, 47>>, <<26376, 26376>>, <<45, 45>>}), Grp(3, <<Rep(<<Cls(DigitRanges)>>, 1, 2)>>), Rep(<<Str(<<26085>>)>>, 0, 1)>> (* re: (20\d{2})[./年-](\d{1,2})[./月-](\d{1,2})日? *),
    <<Grp(1, <<Str(<<50, 48>>), Rep(<<Cls(DigitRanges)>>, 2, 2)>>), Str(<<45>>), Grp(2, <<Rep(<<Cls(DigitRanges)>>, 1, 2)>>), Str(<<45>>), Grp(3, <<Rep(<<Cls(DigitRanges)>>, 1, 2)>>)>> (* re: (20\d{2})-(\d{1,2})-(\d{1,2}) *),
    <<Grp(1, <<Str(<<50, 48>>), Rep(<<Cls(DigitRanges)>>, 2, 2)>>), Str(<<47>>), Grp(2, <<Rep(<<Cls(DigitRanges)>>, 1, 2)>>), Str(<<47>>), Grp(3, <<Rep(<<Cls(DigitRanges)>>, 1, 2)>>)>> (* re: (20\d{2})/(\d{1,2})/(\d{1,2}) *),
    <<Str(<<20196, 21644>>), Ws, Grp(1, <<Rep(<<Cls(DigitRanges)>>, 1, 2)>>), Ws, Str(<<24180>>), Ws, Grp(2, <<Rep(<<Cls(DigitRanges)>>, 1, 2)>>), Ws, Str(<<26376>>), Ws, Grp(3, <<Rep(<<Cls(DigitRanges)>>, 1, 2)>>), Ws, Rep(<<Str(<<26085>>)>>, 0, 1)>> (* re: 令和\s*(\d{1,2})\s*年\s*(\d{1,2})\s*月\s*(\d{1,2})\s*日? *) >>

\* DateFrom with the era pattern tried before the Western patterns
RECURSIVE DateFrom_EraFirst(_, _)
DateFrom_EraFirst(k, t) ==
    IF k > Len(DATE_PATTERNS) THEN None
    ELSE LET p == <<4, 1, 2, 3>>[k]
             Of(m) ==
                IF ~m.ok THEN DateFrom_EraFirst(k + 1, t)
                ELSE LET y == IF p = 4 THEN 2018 + ToInt(Group(m, t, 1))
                                       ELSE ToInt(Group(m, t, 1))
                     IN  Pad(Dec(y), 4) \o Pad(Dec(ToInt(Group(m, t, 2))), 2)
                                        \o Pad(Dec(ToInt(Group(m, t, 3))), 2)
         IN  Of(Search(DATE_PATTERNS[p], t))

\* the pattern that has the era name in it is the fourth
RECURSIVE DateFrom(_, _)
DateFrom(k, t) ==
    IF k > Len(DATE_PATTERNS) THEN None
    ELSE LET Of(m) ==
                IF ~m.ok THEN DateFrom(k + 1, t)
                ELSE LET y == IF k = 4 THEN 2018 + ToInt(Group(m, t, 1))
                                       ELSE ToInt(Group(m, t, 1))
                     IN  Pad(Dec(y), 4) \o Pad(Dec(ToInt(Group(m, t, 2))), 2)
                                        \o Pad(Dec(ToInt(Group(m, t, 3))), 2)
         IN  Of(Search(DATE_PATTERNS[k], t))

extract_date(text) == DateFrom(1, normalize_text(text))

(***************************************************************************)
(* classify_rules: the extractors of a doctor, a client, a clinic, an      *)
(* invoice addressee and a staff member                                    *)
(***************************************************************************)
LABEL_GAP == <<Ws, Rep(<<Cls({<<58, 58>>, <<65306, 65306>>})>>, 0, 1), Ws>> (* re: \s*[:：]?\s* *)

RECURSIVE DoctorFrom(_, _)
DoctorFrom(k, t) ==
    IF k > Len(<<<<20445, 38522, 21307, 27663, 21517>> (* 保険医氏名 *), <<21307, 24107, 27663, 21517>> (* 医師氏名 *), <<21307, 24107, 21517>> (* 医師名 *), <<25285, 24403, 21307>> (* 担当医 *), <<20808, 29983>> (* 先生 *), <<68, 114>> (* Dr *), <<68, 111, 99, 116, 111, 114>> (* Doctor *)>>) THEN None
    ELSE LET lb == <<Str(<<<<20445, 38522, 21307, 27663, 21517>> (* 保険医氏名 *), <<21307, 24107, 27663, 21517>> (* 医師氏名 *), <<21307, 24107, 21517>> (* 医師名 *), <<25285, 24403, 21307>> (* 担当医 *), <<20808, 29983>> (* 先生 *), <<68, 114>> (* Dr *), <<68, 111, 99, 116, 111, 114>> (* Doctor *)>>[k])>> \o LABEL_GAP
             Of(m_sep, m_contig) ==
                 IF m_sep.ok THEN <<Group(m_sep, t, 1), Group(m_sep, t, 2)>>
                 ELSE IF m_contig.ok THEN <<Group(m_contig, t, 1), Group(m_contig, t, 2)>>
                 ELSE DoctorFrom(k + 1, t)
         IN  Of(SearchI(lb \o FULLNAME_SEP, t), SearchI(lb \o FULLNAME_CONTIG, t))

extract_doctor(text) ==
    LET Joined(g) == IF g = None THEN None ELSE _join_fullname(g[1], g[2])
    IN  Joined(DoctorFrom(1, normalize_text(text)))

extract_client(text) ==
    LET Of(m) == IF m.ok THEN Strip(Group(m, text, 2)) ELSE None
    IN  Of(Search(<<Grp(1, <<Alt(<<<<Str(<<21942, 26989, 20808>>)>>, <<Str(<<20250, 31038, 21517>>)>>, <<Str(<<21462, 24341, 20808>>)>>>>)>>), Ws, Rep(<<Cls({<<58, 58>>, <<65306, 65306>>})>>, 0, 1), Ws, Grp(2, <<Rep(<<NCls({<<10, 10>>, <<13, 13>>, <<9, 9>>, <<32, 32>>, <<12288, 12288>>})>>, 2, 50)>>)>> (* re: (営業先|会社名|取引先)\s*[:：]?\s*([^\n\r\t 　]{2,50}) *), text))

extract_client_dept(text) ==
    LET Of(m) == IF m.ok THEN Strip(Group(m, text, 2)) ELSE None
    IN  Of(Search(<<Grp(1, <<Alt(<<<<Str(<<25285, 24403>>)>>, <<Str(<<25285, 24403, 21306>>)>>, <<Str(<<37096, 32626>>)>>, <<Str(<<37096>>)>>, <<Str(<<35506>>)>>>>)>>), Ws, Rep(<<Cls({<<58, 58>>, <<65306, 65306>>})>>, 0, 1), Ws, Grp(2, <<Rep(<<NCls({<<10, 10>>, <<13, 13>>, <<9, 9>>, <<32, 32>>, <<12288, 12288>>})>>, 2, 50)>>)>> (* re: (担当|担当区|部署|部|課)\s*[:：]?\s*([^\n\r\t 　]{2,50}) *), text))

RE_CLINIC_ADDRESSEE == <<Grp(1, <<RepLazy(<<NCls({<<10, 10>>, <<13, 13>>})>>, 2, 60), Alt(<<<<Str(<<35370, 21839, 12510, 12483, 12469, 12540, 12472, 37756, 28792, 38498>>)>>, <<Str(<<37756, 28792, 38498>>)>>, <<Str(<<37341, 28792, 38498>>)>>, <<Str(<<12399, 12426, 12365, 12421, 12358, 38498>>)>>, <<Str(<<37756, 28792, 25972, 39592, 38498>>)>>, <<Str(<<25972, 39592, 38498>>)>>, <<Str(<<25509, 39592, 38498>>)>>, <<Str(<<25972, 20307, 38498>>)>>, <<Str(<<27835, 30274, 38498>>)>>, <<Str(<<12463, 12522, 12491, 12483, 12463>>)>>, <<Str(<<21307, 38498>>)>>, <<Str(<<30149, 38498>>)>>, <<Str(<<21307, 31185>>)>>, <<Str(<<27503, 31185>>)>>, <<Str(<<26045, 34899, 25152>>)>>>>)>>), Ws, Alt(<<<<Str(<<24481, 20013>>)>>, <<Str(<<27096>>)>>, <<Str(<<27583>>)>>, <<Str(<<23451>>)>>>>)>> (* re: ([^\n\r]{2,60}?(?:訪問マッサージ鍼灸院|鍼灸院|針灸院|はりきゅう院|鍼灸整骨院|整骨院|接骨院|整体院|治療院|クリニック|医院|病院|医科|歯科|施術所))\s*(?:御中|様|殿|宛) *)

RE_CLINIC_PLAIN == <<Grp(1, <<Rep(<<NCls({<<10, 10>>, <<13, 13>>} \cup SpaceRanges)>>, 1, 60), Alt(<<<<Str(<<35370, 21839, 12510, 12483, 12469, 12540, 12472, 37756, 28792, 38498>>)>>, <<Str(<<37756, 28792, 38498>>)>>, <<Str(<<37341, 28792, 38498>>)>>, <<Str(<<12399, 12426, 12365, 12421, 12358, 38498>>)>>, <<Str(<<37756, 28792, 25972, 39592, 38498>>)>>, <<Str(<<25972, 39592, 38498>>)>>, <<Str(<<25509, 39592, 38498>>)>>, <<Str(<<25972, 20307, 38498>>)>>, <<Str(<<27835, 30274, 38498>>)>>, <<Str(<<12463, 12522, 12491, 12483, 12463>>)>>, <<Str(<<21307, 38498>>)>>, <<Str(<<30149, 38498>>)>>, <<Str(<<21307, 31185>>)>>, <<Str(<<27503, 31185>>)>>, <<Str(<<26045, 34899, 25152>>)>>>>)>>)>> (* re: ([^\s\n\r]{1,60}(?:訪問マッサージ鍼灸院|鍼灸院|針灸院|はりきゅう院|鍼灸整骨院|整骨院|接骨院|整体院|治療院|クリニック|医院|病院|医科|歯科|施術所)) *)

CLINIC_SUFFIX == <<Alt(<<<<Str(<<35370, 21839, 12510, 12483, 12469, 12540, 12472, 37756, 28792, 38498>>)>>, <<Str(<<37756, 28792, 38498>>)>>, <<Str(<<37341, 28792, 38498>>)>>, <<Str(<<12399, 12426, 12365, 12421, 12358, 38498>>)>>, <<Str(<<37756, 28792, 25972, 39592, 38498>>)>>, <<Str(<<25972, 39592, 38498>>)>>, <<Str(<<25509, 39592, 38498>>)>>, <<Str(<<25972, 20307, 38498>>)>>, <<Str(<<27835, 30274, 38498>>)>>, <<Str(<<12463, 12522, 12491, 12483, 12463>>)>>, <<Str(<<21307, 38498>>)>>, <<Str(<<30149, 38498>>)>>, <<Str(<<21307, 31185>>)>>, <<Str(<<27503, 31185>>)>>, <<Str(<<26045, 34899, 25152>>)>>>>)>> (* re: (?:訪問マッサージ鍼灸院|鍼灸院|針灸院|はりきゅう院|鍼灸整骨院|整骨院|接骨院|整体院|治療院|クリニック|医院|病院|医科|歯科|施術所) *)

extract_clinic(text) ==
    LET Of(t, m1, m2, m3, m4) ==
            IF m1.ok THEN Strip(Group(m1, t, 2))
            ELSE IF m2.ok THEN Strip(Group(m2, t, 1))
            ELSE IF m3.ok THEN Strip(Group(m3, t, 1))
            ELSE IF m4.ok /\ Search(CLINIC_SUFFIX, Group(m4, t, 1)).ok THEN Strip(Group(m4, t, 1))
            ELSE None
        In(t) == Of(t, Search(<<Grp(1, <<Alt(<<<<Str(<<27835, 30274, 38498, 21517>>)>>, <<Str(<<26045, 34899, 25152, 21517>>)>>, <<Str(<<20107, 26989, 25152, 21517>>)>>, <<Str(<<12463, 12522, 12491, 12483, 12463, 21517>>)>>, <<Str(<<21307, 38498, 21517>>)>>, <<Str(<<30149, 38498, 21517>>)>>>>)>>), Ws, Rep(<<Cls({<<58, 58>>, <<65306, 65306>>})>>, 0, 1), Ws, Grp(2, <<Rep(<<NCls({<<10, 10>>, <<13, 13>>})>>, 2, 60)>>)>> (* re: (治療院名|施術所名|事業所名|クリニック名|医院名|病院名)\s*[:：]?\s*([^\n\r]{2,60}) *), t),
                       Search(RE_CLINIC_ADDRESSEE, t),
                       Search(RE_CLINIC_PLAIN, t),
                       Search(<<Grp(1, <<RepLazy(<<NCls({<<10, 10>>, <<13, 13>>})>>, 2, 60)>>), Ws, Alt(<<<<Str(<<24481, 20013>>)>>, <<Str(<<27096>>)>>, <<Str(<<27583>>)>>, <<Str(<<23451>>)>>>>)>> (* re: ([^\n\r]{2,60}?)\s*(?:御中|様|殿|宛) *), t))
    IN  In(normalize_text(text))

extract_invoice_clinic(text) ==
    LET Of(t, m1, m2, m3) ==
            IF m1.ok THEN Strip(Group(m1, t, 1))
            ELSE IF m2.ok THEN Strip(Group(m2, t, 1))
            ELSE IF m3.ok THEN Strip(Group(m3, t, 1))
            ELSE None
        In(t) == Of(t, Search(RE_CLINIC_ADDRESSEE, t),
                       Search(<<Alt(<<<<Str(<<35531, 27714, 20808>>)>>, <<Str(<<23451, 20808>>)>>>>), Ws, Rep(<<Cls({<<58, 58>>, <<65306, 65306>>})>>, 0, 1), Ws, Grp(1, <<RepLazy(<<NCls({<<10, 10>>, <<13, 13>>})>>, 2, 60), Alt(<<<<Str(<<35370, 21839, 12510, 12483, 12469, 12540, 12472, 37756, 28792, 38498>>)>>, <<Str(<<37756, 28792, 38498>>)>>, <<Str(<<37341, 28792, 38498>>)>>, <<Str(<<12399, 12426, 12365, 12421, 12358, 38498>>)>>, <<Str(<<37756, 28792, 25972, 39592, 38498>>)>>, <<Str(<<25972, 39592, 38498>>)>>, <<Str(<<25509, 39592, 38498>>)>>, <<Str(<<25972, 20307, 38498>>)>>, <<Str(<<27835, 30274, 38498>>)>>, <<Str(<<12463, 12522, 12491, 12483, 12463>>)>>, <<Str(<<21307, 38498>>)>>, <<Str(<<30149, 38498>>)>>, <<Str(<<21307, 31185>>)>>, <<Str(<<27503, 31185>>)>>, <<Str(<<26045, 34899, 25152>>)>>>>)>>)>> (* re: (?:請求先|宛先)\s*[:：]?\s*([^\n\r]{2,60}?(?:訪問マッサージ鍼灸院|鍼灸院|針灸院|はりきゅう院|鍼灸整骨院|整骨院|接骨院|整体院|治療院|クリニック|医院|病院|医科|歯科|施術所)) *), t),
                       Search(RE_CLINIC_PLAIN, t))
    IN  In(normalize_text(text))

\* The definition in effect is the second one of the file (lines 441-443),
\* which replaces the first (lines 372-376): it reads the text as given.
extract_staff(text) ==
    LET Of(m) == IF m.ok THEN Strip(Group(m, text, 2)) ELSE None
    IN  Of(Search(<<Grp(1, <<Alt(<<<<Str(<<12473, 12479, 12483, 12501>>)>>, <<Str(<<25285, 24403, 32773>>)>>, <<Str(<<26045, 34899, 32773>>)>>, <<Str(<<20316, 25104, 32773>>)>>>>)>>), Ws, Rep(<<Cls({<<58, 58>>, <<65306, 65306>>})>>, 0, 1), Ws, Grp(2, <<Rep(<<NCls({<<10, 10>>, <<13, 13>>, <<9, 9>>, <<32, 32>>, <<12288, 12288>>})>>, 2, 30)>>)>> (* re: (スタッフ|担当者|施術者|作成者)\s*[:：]?\s*([^\n\r\t 　]{2,30}) *), text))

(***************************************************************************)
(* classify_rules.extract_patient                                          *)
(***************************************************************************)
\* list(re.finditer(FULLNAME_SEP, s)) or list(re.finditer(FULLNAME_CONTIG, s))
FullnameCands(s) ==
    LET Or2(sep, contig) == IF sep # <<>> THEN sep ELSE contig
    IN  Or2(FindAllFrom(FULLNAME_SEP, s, 0), FindAllFrom(FULLNAME_CONTIG, s, 0))

\* re.search(FULLNAME_SEP, s) or re.search(FULLNAME_CONTIG, s)
FullnameIn(s) ==
    LET Or2(sep, contig) == IF sep.ok THEN sep ELSE contig
    IN  Or2(Search(FULLNAME_SEP, s), Search(FULLNAME_CONTIG, s))

\* _accept of extract_patient; the helpers below put a candidate to the same
\* test
_accept(g1, g2) ==
    LET Ok(cand) ==
            IF cand # <<>> /\ ~_looks_addressy(cand) /\ _is_valid_person_tokens(g1, g2, "patient")
            THEN cand ELSE None
    IN  Ok(_join_fullname(g1, g2))

\* the loop over reversed(cands): the last candidate is tried first
RECURSIVE SameLineFrom(_, _)
SameLineFrom(cands, line) ==
    IF cands = <<>> THEN None
    ELSE LET g == cands[Len(cands)]
             g1 == Group(g, line, 1)
             g2a == Group(g, line, 2)
             tail == Slice(line, g.e, g.e + 20)
             Third(nxt) == IF g1 = g2a /\ nxt.ok /\ Group(nxt, tail, 1) # g2a
                           THEN Group(nxt, tail, 1) ELSE g2a
             Then(cand) == IF cand # None THEN cand
                           ELSE SameLineFrom(SubSeq(cands, 1, Len(cands) - 1), line)
         IN  Then(_accept(g1, Third(SearchIn(<<Ws, Grp(1, <<Rep(<<Cls({<<12353, 12435>>, <<12449, 12531>>, <<12540, 12540>>, <<19968, 40869>>, <<12293, 12293>>, <<12294, 12294>>, <<12533, 12533>>, <<12534, 12534>>, <<65, 90>>, <<97, 122>>})>>, 1, 15)>>)>> (* re: \s*([ぁ-んァ-ンー一-龥々〆ヵヶA-Za-z]{1,15}) *), tail, 0, 0, FALSE))))

_fullname_on_same_line_after(label, t) ==
    LET Of(m) == IF ~m.ok THEN None
                 ELSE LET line == _strip_after_labels(Group(m, t, 0))
                      IN  SameLineFrom(FullnameCands(line), line)
    IN  Of(Search(<<Str(label)>> \o <<Ws, Rep(<<Cls({<<58, 58>>, <<65306, 65306>>})>>, 0, 1), Rep(<<NCls({<<10, 10>>})>>, 0, -1)>> (* re: \s*[:：]?[^\n]* *), t))

_fullname_on_next_line_after(label, t) ==
    LET Names(g, next_line) ==
            IF ~g.ok THEN None
            ELSE LET g1 == Group(g, next_line, 1)
                     g2 == Group(g, next_line, 2)
                 IN  IF g1 # g2 THEN _accept(g1, g2) ELSE None
        Of(m) == IF ~m.ok THEN None
                 ELSE LET next_line == _strip_after_labels(Slice(t, m.e, m.e + 120))
                      IN  Names(FullnameIn(next_line), next_line)
    IN  Of(Search(<<Str(label)>> \o <<Ws, Rep(<<Cls({<<58, 58>>, <<65306, 65306>>})>>, 0, 1), RepLazy(<<NCls({<<10, 10>>})>>, 0, -1), Str(<<10>>)>> (* re: \s*[:：]?.*?\n *), t))

_name_after_label_window(lb, t) ==
    LET Names(g, win) ==
            IF ~g.ok THEN None
            ELSE LET g1 == Group(g, win, 1)
                     g2 == Group(g, win, 2)
                 IN  IF g1 # g2 THEN _accept(g1, g2) ELSE None
        Of(m) == IF ~m.ok THEN None
                 ELSE LET win == _strip_after_labels(Group(m, t, 1))
                      IN  Names(FullnameIn(win), win)
    IN  Of(Search(<<Str(lb)>> \o <<Ws, Rep(<<Cls({<<58, 58>>, <<65306, 65306>>})>>, 0, 1), Ws, Grp(1, <<Rep(<<NCls({<<10, 10>>})>>, 0, 80)>>)>> (* re: \s*[:：]?\s*([^\n]{0,80}) *), t))

\* the first line of the matches that holds a full name gives the result:
\* the two tokens of its last candidate, which the caller joins
RECURSIVE BrokenShimeiFrom(_, _, _)
BrokenShimeiFrom(ms, k, t) ==
    IF k > Len(ms) THEN None
    ELSE LET line == Group(ms[k], t, 0)
             Last(cands) ==
                 IF cands # <<>>
                 THEN <<Group(cands[Len(cands)], line, 1), Group(cands[Len(cands)], line, 2)>>
                 ELSE BrokenShimeiFrom(ms, k + 1, t)
         IN  Last(FullnameCands(line))

_fullname_after_broken_shimei(t) ==
    LET Joined(g) == IF g = None THEN None ELSE _join_fullname(g[1], g[2])
    IN  Joined(BrokenShimeiFrom(FindAllFrom(<<Str(<<27663>>), Rep(<<NCls({<<10, 10>>})>>, 0, 40), Str(<<21517>>), Rep(<<NCls({<<10, 10>>})>>, 0, -1)>> (* re: 氏[^\n]{0,40}名[^\n]* *), t, 0), 1, t))

\* step 1 of extract_patient, the loop over LABELS
RECURSIVE PatientByLabel(_, _)
PatientByLabel(k, t) ==
    IF k > Len(<<<<24739, 32773, 27663, 21517>> (* 患者氏名 *), <<24739, 32773, 21517>> (* 患者名 *), <<24739, 32773, 27096, 27663, 21517>> (* 患者様氏名 *), <<24739, 32773, 27096, 21517>> (* 患者様名 *), <<34987, 20445, 38522, 32773, 27663, 21517>> (* 被保険者氏名 *), <<34987, 20445, 38522, 32773, 21517>> (* 被保険者名 *)>>) THEN None
    ELSE LET lb == <<<<24739, 32773, 27663, 21517>> (* 患者氏名 *), <<24739, 32773, 21517>> (* 患者名 *), <<24739, 32773, 27096, 27663, 21517>> (* 患者様氏名 *), <<24739, 32773, 27096, 21517>> (* 患者様名 *), <<34987, 20445, 38522, 32773, 27663, 21517>> (* 被保険者氏名 *), <<34987, 20445, 38522, 32773, 21517>> (* 被保険者名 *)>>[k]
             Accepted(m) == IF m.ok THEN _accept(Group(m, t, 1), Group(m, t, 2)) ELSE None
             First(win, a1, a2, fn, fn2) ==
                 IF win # None THEN win
                 ELSE IF a1 # None THEN a1
                 ELSE IF a2 # None THEN a2
                 ELSE IF fn # None THEN fn
                 ELSE IF fn2 # None THEN fn2
                 ELSE PatientByLabel(k + 1, t)
         IN  First(_name_after_label_window(lb, t),
                   Accepted(Search(<<Str(lb)>> \o LABEL_GAP \o FULLNAME_SEP, t)),
                   Accepted(Search(<<Str(lb)>> \o LABEL_GAP \o FULLNAME_CONTIG, t)),
                   _fullname_on_same_line_after(lb, t),
                   _fullname_on_next_line_after(lb, t))

\* extract_patient on the normalized text: the strategy that gave the name,
\* the two tokens it joined (kept for the strategies that join a match
\* without asking _accept) and the name
PatientOf(t) ==
    LET Or2(sep, contig) == IF sep.ok THEN sep ELSE contig
        Tokens(m) == IF m.ok THEN <<Group(m, t, 1), Group(m, t, 2)>> ELSE None
        Joined(g) == IF g = None THEN None ELSE _join_fullname(g[1], g[2])
        Window(m) == IF m.ok THEN _name_after_label_window(<<24739, 32773>> (* 患者 *), Group(m, t, 1)) ELSE None
        g0 == Tokens(Or2(Search(FULLNAME_SEP \o <<Alt(<<<<Ws, Cls({<<27096, 27096>>, <<27171, 27171>>}), Rep(<<Alt(<<<<Str(<<12398>>)>>, <<Str(<<12399>>)>>, <<Str(<<12391, 12377>>)>>, <<Str(<<12391>>)>>, <<Str(<<12395>>)>>>>)>>, 0, 1)>>, <<Ws, Str(<<12373, 12414>>)>>>>)>> (* re: (?:\s*(?:様|樣)(?:の|は|です|で|に)?|\s*さま) *), t),
                         Search(FULLNAME_CONTIG \o <<Alt(<<<<Ws, Cls({<<27096, 27096>>, <<27171, 27171>>}), Rep(<<Alt(<<<<Str(<<12398>>)>>, <<Str(<<12399>>)>>, <<Str(<<12391, 12377>>)>>, <<Str(<<12391>>)>>, <<Str(<<12395>>)>>>>)>>, 0, 1)>>, <<Ws, Str(<<12373, 12414>>)>>>>)>> (* re: (?:\s*(?:様|樣)(?:の|は|です|で|に)?|\s*さま) *), t)))
        g3 == BrokenShimeiFrom(FindAllFrom(<<Str(<<27663>>), Rep(<<NCls({<<10, 10>>})>>, 0, 40), Str(<<21517>>), Rep(<<NCls({<<10, 10>>})>>, 0, -1)>> (* re: 氏[^\n]{0,40}名[^\n]* *), t, 0), 1, t)
        Pick(c0, c1, c2, c3) ==
            IF c0 # None /\ c0 # <<>> /\ ~_looks_addressy(c0)
            THEN [by |-> "honorific", tokens |-> g0, name |-> c0]
            ELSE IF c1 # None THEN [by |-> "label", tokens |-> None, name |-> c1]
            ELSE IF c2 # None THEN [by |-> "window", tokens |-> None, name |-> c2]
            ELSE IF c3 # None /\ c3 # <<>> /\ ~_looks_addressy(c3)
            THEN [by |-> "broken", tokens |-> g3, name |-> c3]
            ELSE [by |-> "none", tokens |-> None, name |-> None]
    IN  Pick(Joined(g0),
             PatientByLabel(1, t),
             Window(Search(<<Grp(1, <<Str(<<24739, 32773>>), Rep(<<NCls({<<10, 10>>})>>, 0, 60)>>)>> (* re: (患者[^\n]{0,60}) *), t)),
             _fullname_after_broken_shimei(t))

extract_patient(text) == PatientOf(normalize_text(text)).name

(***************************************************************************)
(* classify_rules: building a file name                                    *)
(***************************************************************************)
\* the characters \ / : * ? " < > |
FORBIDDEN_CHARS == {92, 47, 58, 42, 63, 34, 60, 62, 124}

UNKNOWN == <<19981, 26126>> (* 不明 *)

\* a variant that leaves the characters of the name as they are
_sanitize_filename_AsIs(name) == Or(Strip(name), UNKNOWN)

_sanitize_filename(name) ==
    Or(Strip(Sub(<<Rep(<<Cls({<<c, c>> : c \in FORBIDDEN_CHARS})>>, 1, -1)>>, <<95>> (* _ *), name)), UNKNOWN)

_ym_from_dt(dt) == Slice(dt, 0, 4) \o <<24180>> (* 年 *) \o Slice(dt, 4, 6) \o <<26376>> (* 月 *)

_compact(s) ==
    Sub(<<Rep(<<Cls({<<32, 32>>, <<95, 95>>})>>, 2, -1)>> (* re: [ _]{2,} *), <<32>> (*   *),
        Sub(<<Rep(<<Str(<<95>>)>>, 1, -1)>> (* re: _+ *), <<95>> (* _ *),
            Strip(Sub(<<Rep(<<Cls({<<32, 32>>, <<12288, 12288>>})>>, 1, -1)>> (* re: [ 　]+ *), <<32>> (*   *), s))))

\* now is datetime.now().strftime("%Y%m%d") at the time of the call
_tokens(text, patient, doctor, date_str, now) ==
    LET dt == Or(date_str, now)
    IN  [patient |-> _sanitize_filename(Or(patient, UNKNOWN)),
         doctor |-> _sanitize_filename(Or(doctor, UNKNOWN)),
         date |-> dt,
         ym |-> _ym_from_dt(dt),
         client |-> _sanitize_filename(Or(extract_client(text), <<21942, 26989, 20808, 19981, 26126>> (* 営業先不明 *))),
         client_dept |-> _sanitize_filename(Or(extract_client_dept(text), <<25285, 24403, 21306, 19981, 26126>> (* 担当区不明 *))),
         clinic |-> _sanitize_filename(Or(extract_clinic(text), <<27835, 30274, 38498, 19981, 26126>> (* 治療院不明 *))),
         staff |-> _sanitize_filename(Or(extract_staff(text), <<12473, 12479, 12483, 12501, 19981, 26126>> (* スタッフ不明 *))),
         invoice_clinic |-> _sanitize_filename(
             Or(extract_invoice_clinic(text), Or(extract_clinic(text), <<27835, 30274, 38498, 19981, 26126>> (* 治療院不明 *))))]

\* A template is the sequence of its pieces: a string stands for itself, a
\* field name in a one-element sequence for the token of that name.
NAMING_TEMPLATES ==
    (CAT_CONSENT :> <<CAT_CONSENT, <<"patient">>, <<"doctor">>, <<"date">> >>)
    @@ (CAT_INSURANCE :> <<CAT_INSURANCE, <<"patient">>, <<"date">> >>)
    @@ (CAT_REPORT :> << <<"patient">>, <<"client">>, <<"client_dept">>, <<"ym">>,
                         <<"clinic">>, CAT_REPORT, <<"staff">> >>)
    @@ (CAT_PATIENTLIST :> <<CAT_PATIENTLIST, <<"patient">>, <<"doctor">>, <<"date">> >>)
    @@ (CAT_INVOICE :> <<CAT_INVOICE, <<"invoice_clinic">>, <<"ym">> >>)
    @@ (CAT_RECORD :> <<CAT_RECORD, <<"clinic">>, <<"ym">> >>)

\* tmpl.format_map(toks): the pieces joined by "_"
RECURSIVE FormatFrom(_, _, _)
FormatFrom(tmpl, k, toks) ==
    LET piece == IF Len(tmpl[k]) = 1 /\ tmpl[k][1] \in DOMAIN toks
                 THEN toks[tmpl[k][1]] ELSE tmpl[k]
    IN  IF k = Len(tmpl) THEN piece
        ELSE piece \o <<95>> (* _ *) \o FormatFrom(tmpl, k + 1, toks)

MAX_BASENAME == 80

build_filename(category, patient, doctor, date_str, ext, text, now) ==
    LET tmpl == IF category \in DOMAIN NAMING_TEMPLATES
                THEN NAMING_TEMPLATES[category] ELSE << <<"cat">>, <<"patient">>, <<"date">> >>
        Short(name) ==
            IF Len(name) > MAX_BASENAME
            THEN RStripChars(RStripChars(Slice(name, 0, MAX_BASENAME), {95, 32}),
                             UNION {r[1]..r[2] : r \in SpaceRanges})
            ELSE name
    IN  Short(_compact(FormatFrom(tmpl, 1, _tokens(text, patient, doctor, date_str, now)
                                           @@ ("cat" :> category)))) \o ext

(***************************************************************************)
(* AI_OCR: the name of a treatment report                                  *)
(***************************************************************************)
_norm(s) ==
    IF s = None THEN <<>>
    ELSE StripChars(Sub(<<Rep(<<Str(<<95>>)>>, 1, -1)>> (* re: _+ *), <<95>> (* _ *),
                        Sub(<<Cls({<<c, c>> : c \in FORBIDDEN_CHARS})>>, <<95>> (* _ *),
                            Sub(<<Rep(<<Cls({<<32, 32>>, <<12288, 12288>>, <<9, 9>>})>>, 1, -1)>> (* re: [ 　\t]+ *), <<>>, NFKC(s)))), {95})

\* sep.join(parts)
RECURSIVE Join(_, _)
Join(parts, sep) ==
    IF parts = <<>> THEN <<>>
    ELSE IF Len(parts) = 1 THEN parts[1]
    ELSE parts[1] \o sep \o Join(Tail(parts), sep)

\* the weighted sum of the characters of s from position lo to position hi
RECURSIVE Checksum(_, _, _)
Checksum(s, lo, hi) ==
    IF lo > hi THEN 0
    ELSE IF lo = hi THEN (s[lo] * lo) % 16777216
    ELSE LET mid == (lo + hi) \div 2
         IN  (Checksum(s, lo, mid) + Checksum(s, mid + 1, hi)) % 16777216

\* hashlib.sha1("|".join(parts)).hexdigest()[:6]: six hexadecimal digits that
\* the parts determine.  The digest is not computed; a checksum of the joined
\* parts stands for it.
_hash6(parts) ==
    LET Hex(n) == [k \in 1..6 |-> <<48, 49, 50, 51, 52, 53, 54, 55, 56, 57, 97, 98, 99, 100, 101, 102>> (* 0123456789abcdef *)[((n \div (16 ^ (6 - k))) % 16) + 1]]
        Sum(joined) == Hex(Checksum(joined, 1, Len(joined)))
    IN  Sum(Join(parts, <<124>> (* | *)))

\* the first of period_start and created_at that has a year and a month in
\* it, and datetime.now().strftime("%Y-%m") when neither has
YearMonthOf(meta, now) ==
    LET First(m1, m2) ==
            IF m1.ok THEN Group(m1, meta.period_start, 1) \o <<45>> (* - *) \o Group(m1, meta.period_start, 2)
            ELSE IF m2.ok THEN Group(m2, meta.created_at, 1) \o <<45>> (* - *) \o Group(m2, meta.created_at, 2)
            ELSE Slice(now, 0, 4) \o <<45>> (* - *) \o Slice(now, 4, 6)
    IN  First(Search(<<Grp(1, <<Rep(<<Cls(DigitRanges)>>, 4, 4)>>), Cls({<<45, 45>>, <<47, 47>>}), Grp(2, <<Rep(<<Cls(DigitRanges)>>, 2, 2)>>)>> (* re: (\d{4})[-/](\d{2}) *), meta.period_start),
              Search(<<Grp(1, <<Rep(<<Cls(DigitRanges)>>, 4, 4)>>), Cls({<<45, 45>>, <<47, 47>>}), Grp(2, <<Rep(<<Cls(DigitRanges)>>, 2, 2)>>)>> (* re: (\d{4})[-/](\d{2}) *), meta.created_at))

\* the parts that are not empty, joined by "_", and the extension
NameOfParts(parts, ext) ==
    Join(SelectSeq(parts, LAMBDA p : p # <<>>), <<95>> (* _ *))
    \o (IF ext # <<>> /\ ext[1] = 46 THEN ext ELSE <<46>> \o ext)

build_filename_treatment_report(meta, ext, now) ==
    LET ts == meta.created_at
        Stamp(m) ==
            IF m.ok
            THEN Group(m, ts, 1) \o Group(m, ts, 2) \o Group(m, ts, 3) \o <<45>> (* - *)
                 \o Group(m, ts, 4) \o Group(m, ts, 5) \o Group(m, ts, 6)
            ELSE <<>>
        Name(patient, clinic, staff, city, office, yyyymm, stamp) ==
            LET name == NameOfParts(<<patient, yyyymm, CAT_REPORT, clinic, staff, city, office, stamp>>, ext)
                short_office == IF Len(office) > 13
                                THEN Slice(office, 0, 12) \o <<8230>> ELSE office
                hx == _hash6(<<patient, yyyymm, clinic, staff, city, office, stamp>>)
            IN  IF Len(name) > 120
                THEN NameOfParts(<<patient, yyyymm, CAT_REPORT, clinic, staff, city,
                                   short_office \o <<95>> (* _ *) \o hx, stamp>>, ext)
                ELSE name
    IN  Name(_norm(meta.patient), _norm(meta.clinic), _norm(meta.staff), _norm(meta.city),
             _norm(meta.office), YearMonthOf(meta, now),
             Stamp(Search(<<Grp(1, <<Rep(<<Cls(DigitRanges)>>, 4, 4)>>), Cls({<<45, 45>>, <<47, 47>>}), Grp(2, <<Rep(<<Cls(DigitRanges)>>, 2, 2)>>), Cls({<<45, 45>>, <<47, 47>>}), Grp(3, <<Rep(<<Cls(DigitRanges)>>, 2, 2)>>), RepLazy(<<NCls({<<10, 10>>})>>, 0, -1), Grp(4, <<Rep(<<Cls(DigitRanges)>>, 2, 2)>>), Str(<<58>>), Grp(5, <<Rep(<<Cls(DigitRanges)>>, 2, 2)>>), Str(<<58>>), Grp(6, <<Rep(<<Cls(DigitRanges)>>, 2, 2)>>)>> (* re: (\d{4})[-/](\d{2})[-/](\d{2}).*?(\d{2}):(\d{2}):(\d{2}) *), ts)))

(***************************************************************************)
(* AI_OCR.parse_meta_from_tiryo_houkokusho                                 *)
(***************************************************************************)
\* s.find(sub)
Find(sub, s) ==
    LET At0(m) == IF m.ok THEN m.b ELSE -1
    IN  At0(Search(<<Str(sub)>>, s))

\* [x for x in s.split(" ") if x]
Words(s) ==
    LET Of(ms) == [k \in 1..Len(ms) |-> Group(ms[k], s, 0)]
    IN  Of(FindAllFrom(<<Rep(<<NCls({<<32, 32>>})>>, 1, -1)>> (* re: [^ ]+ *), s, 0))

\* tok.endswith(("市", "区", "町", "村"))
IsCity(tok) == tok # <<>> /\ tok[Len(tok)] \in {24066 (* 市 *), 21306 (* 区 *), 30010 (* 町 *), 26449 (* 村 *)}

parse_meta_from_tiryo_houkokusho(text) ==
    LET \* 1) the period and 2) the time of creation
        Period(mp, t_space) ==
            [period_start |-> IF mp.ok THEN Group(mp, t_space, 1) ELSE <<>>,
             period_end |-> IF mp.ok THEN Group(mp, t_space, 2) ELSE <<>>]
        Created(mc, t_space) ==
            IF mc.ok THEN Group(mc, t_space, 1) \o <<32>> (*   *) \o Group(mc, t_space, 2)
            ELSE <<>>
        \* 3) clinic, staff and patient: from the period to the first 様
        TailOf(t_space, period_end) ==
            IF period_end # <<>>
            THEN Strip(Slice(t_space, Find(period_end, t_space) + Len(period_end), Len(t_space)))
            ELSE t_space
        Before(tail, idx_sama) == IF idx_sama # -1 THEN Slice(tail, 0, idx_sama) ELSE tail
        HeadOf(tail) == Before(tail, Find(<<27096>> (* 様 *), tail))
        Names(toks) ==
            LET n == Len(toks)
                clinic0 == IF n >= 2 THEN Strip(Join(SubSeq(toks, 1, n - 2), <<32>> (*   *))) ELSE <<>>
            IN  [patient |-> IF n >= 2 THEN toks[n] ELSE <<>>,
                 staff |-> IF n >= 2 THEN toks[n - 1] ELSE <<>>,
                 clinic |-> Strip(Sub(<<Rep(<<Grp(1, <<Alt(<<<<Str(<<27835, 30274, 22577, 21578, 26360>>)>>, <<Str(<<22577, 21578, 23550, 35937, 24180, 26376>>)>>, <<Str(<<27835, 30274, 38498, 21517>>)>>, <<Str(<<12473, 12479, 12483, 12501, 21517>>)>>, <<Str(<<24739, 32773, 27096, 27663, 21517>>)>>, <<Str(<<25152>>)>>, <<Str(<<24739, 32773, 27096, 20303>>)>>>>)>>)>>, 1, -1)>> (* re: (治療報告書|報告対象年月|治療院名|スタッフ名|患者様氏名|所|患者様住)+ *), <<>>, clinic0))]
        \* 4) city and office: between 事業所名 and 御中, or the fallback
        Labelled(seg_toks) ==
            LET hits == {i \in 1..Len(seg_toks) : IsCity(seg_toks[i])}
                first == CHOOSE i \in hits : \A j \in hits : i <= j
                office1 == IF hits # {}
                           THEN Strip(Join(SubSeq(seg_toks, first + 1, Len(seg_toks)), <<32>> (*   *)))
                           ELSE <<>>
            IN  [city |-> IF hits # {} THEN seg_toks[first] ELSE <<>>,
                 office |-> IF office1 = <<>> /\ seg_toks # <<>>
                            THEN Strip(Join(seg_toks, <<32>> (*   *))) ELSE office1]
        Fallback(pre, m_off, t_space) ==
            LET cities == {i \in 1..Len(pre) : IsCity(pre[i])}
            IN  [city |-> IF cities # {}
                          THEN pre[CHOOSE i \in cities : \A j \in cities : i >= j] ELSE <<>>,
                 office |-> IF m_off.ok THEN Group(m_off, t_space, 1) ELSE <<>>]
        Place(t_space, idx_onchu, idx_offlbl) ==
            IF idx_offlbl # -1 /\ idx_onchu # -1 /\ idx_offlbl < idx_onchu
            THEN Labelled(Words(Strip(Sub(<<Rep(<<Grp(1, <<Alt(<<<<Str(<<30010, 26449>>)>>, <<Str(<<37197, 24067, 20808, 25285, 24403, 32773>>)>>, <<Str(<<27096>>)>>>>)>>)>>, 1, -1)>> (* re: (町村|配布先担当者|様)+ *), <<32>> (*   *), Slice(t_space, idx_offlbl + 4, idx_onchu)))))
            ELSE Fallback(Words(IF idx_onchu # -1 THEN Slice(t_space, 0, idx_onchu) ELSE t_space),
                          Search(<<Grp(1, <<Rep(<<NCls(SpaceRanges)>>, 2, 50)>>), Ws, Str(<<24481, 20013>>)>> (* re: ([^\s]{2,50})\s*御中 *), t_space),
                          t_space)
        Meta(names, place, period, created_at) ==
            [patient |-> names.patient, staff |-> names.staff, clinic |-> names.clinic,
             city |-> place.city, office |-> place.office,
             period_start |-> period.period_start, period_end |-> period.period_end,
             created_at |-> created_at]
        Of(t_space, period) ==
            Meta(Names(Words(HeadOf(TailOf(t_space, period.period_end)))),
                 Place(t_space, Find(<<24481, 20013>> (* 御中 *), t_space), Find(<<20107, 26989, 25152, 21517>> (* 事業所名 *), t_space)),
                 period,
                 Created(Search(<<Str(<<20316, 25104, 26085, 26178>>), Ws, Rep(<<Cls({<<58, 58>>, <<65306, 65306>>})>>, 0, 1), Ws, Grp(1, <<Rep(<<Cls(DigitRanges)>>, 4, 4), Cls({<<45, 45>>, <<47, 47>>}), Rep(<<Cls(DigitRanges)>>, 2, 2), Cls({<<45, 45>>, <<47, 47>>}), Rep(<<Cls(DigitRanges)>>, 2, 2)>>), Rep(<<Cls(SpaceRanges)>>, 1, -1), Grp(2, <<Rep(<<Cls(DigitRanges)>>, 2, 2), Str(<<58>>), Rep(<<Cls(DigitRanges)>>, 2, 2), Str(<<58>>), Rep(<<Cls(DigitRanges)>>, 2, 2)>>)>> (* re: 作成日時\s*[:：]?\s*(\d{4}[-/]\d{2}[-/]\d{2})\s+(\d{2}:\d{2}:\d{2}) *), t_space), t_space))
        With(t_space) ==
            Of(t_space, Period(Search(<<Grp(1, <<Rep(<<Cls(DigitRanges)>>, 4, 4), Cls({<<45, 45>>, <<47, 47>>}), Rep(<<Cls(DigitRanges)>>, 2, 2), Cls({<<45, 45>>, <<47, 47>>}), Rep(<<Cls(DigitRanges)>>, 2, 2)>>), Ws, Cls({<<45, 45>>, <<12316, 12316>>, <<126, 126>>}), Ws, Grp(2, <<Rep(<<Cls(DigitRanges)>>, 4, 4), Cls({<<45, 45>>, <<47, 47>>}), Rep(<<Cls(DigitRanges)>>, 2, 2), Cls({<<45, 45>>, <<47, 47>>}), Rep(<<Cls(DigitRanges)>>, 2, 2)>>)>> (* re: (\d{4}[-/]\d{2}[-/]\d{2})\s*[-〜~]\s*(\d{4}[-/]\d{2}[-/]\d{2}) *), t_space), t_space))
    IN  With(Strip(Sub(<<Rep(<<Cls(SpaceRanges)>>, 1, -1)>> (* re: \s+ *), <<32>> (*   *), NFKC(text))))

(***************************************************************************)
(* Specification SpecNormalize: normalize_text on a text, then on its own  *)
(* result.                                                                 *)
(***************************************************************************)
MaxNormFrags == 3

NormTexts == Concats({ <<12473, 12479, 12483, 12501>> (* スタッフ *), <<21517>> (* 名 *), <<32>> (*   *), <<10>> (* \n *), <<24739>> (* 患 *), <<32773>> (* 者 *), <<27096>> (* 様 *), <<27663>> (* 氏 *), <<25152>> (* 所 *), <<12288>> (* 　 *), <<27171>> (* 樣 *), <<30149, 38498>> (* 病院 *), <<65313>> (* Ａ *) }, MaxNormFrags)

\* The variables of the specifications other than spec stay as they are here.
IdleBut(spec) ==
    /\ IF spec = "Normalize" THEN TRUE
       ELSE nPc = "idle" /\ nText = <<>> /\ nOnce = None /\ nTwice = None
    /\ IF spec = "Classify" THEN TRUE
       ELSE kPc = "idle" /\ kText = <<>> /\ kNorm = None /\ kCat = None
    /\ IF spec = "Uniq" THEN TRUE
       ELSE /\ uPc = "idle" /\ uName = <<>> /\ uStore = {} /\ uI = 0
            /\ uAsked = <<>> /\ uResult = None
    /\ IF spec = "Pipeline" THEN TRUE
       ELSE pText = <<>> /\ pExt = <<>> /\ pStore = {} /\ pRun = <<>>
    /\ IF spec = "Race" THEN TRUE
       ELSE /\ rText = <<>> /\ rPc = <<>> /\ rName = <<>> /\ rI = <<>>
            /\ rFinal = <<>> /\ rStore = <<>> /\ rLog = <<>>
    /\ IF spec = "Names" THEN TRUE
       ELSE /\ mG1 = <<>> /\ mG2 = <<>> /\ mText = <<>> /\ mPc = "idle" /\ mRole = ""
            /\ mValid = FALSE /\ mPatient = None /\ mDoctor = None
    /\ IF spec = "Handle" THEN TRUE
       ELSE /\ hKind = "" /\ hText = <<>> /\ hStore = <<>> /\ hPc = "idle" /\ hName = <<>>
            /\ hLink = FALSE /\ hRows = <<>> /\ hReplies = <<>>

InitNormalize ==
    /\ nPc = "start"
    /\ nText \in NormTexts
    /\ nOnce = None
    /\ nTwice = None
    /\ IdleBut("Normalize")

Normalize ==
    /\ nPc = "start"
    /\ nOnce' = normalize_text(nText)
    /\ nPc' = "once"
    /\ UNCHANGED <<nText, nTwice, kVars, uVars, pVars, rVars, mVars, hVars>>

NormalizeAgain ==
    /\ nPc = "once"
    /\ nTwice' = normalize_text(nOnce)
    /\ nPc' = "twice"
    /\ UNCHANGED <<nText, nOnce, kVars, uVars, pVars, rVars, mVars, hVars>>

NextNormalize == Normalize \/ NormalizeAgain

SpecNormalize == InitNormalize /\ [][NextNormalize]_vars

\* C9: normalize_text is idempotent: normalizing a normalized text changes
\* nothing.
C9_Idempotent == nPc = "twice" => nTwice = nOnce

\* C22 as stated: normalize_text keeps the line breaks: the normalized text
\* has as many line-break characters as the text it was given.
C22_LineBreaksKept ==
    nPc # "start" =>
        Cardinality({i \in 1..Len(nOnce) : nOnce[i] = 10}) =
            Cardinality({i \in 1..Len(nText) : nText[i] = 10})

(***************************************************************************)
(* Specification SpecClassify: detect_category on a text.                  *)
(***************************************************************************)
MaxClassifyFrags == 3

ClassifyTexts == Concats({ <<22522, 26412, 24773, 22577>> (* 基本情報 *), <<24739, 32773, 19968, 35239>> (* 患者一覧 *), <<27835, 30274, 22577, 21578, 26360>> (* 治療報告書 *), <<22577, 21578, 23550, 35937, 24180, 26376>> (* 報告対象年月 *), <<30446, 27161>> (* 目標 *), <<25152, 24863>> (* 所感 *), <<30274, 39178, 36027>> (* 療養費 *), <<30456, 35527, 25903, 25588>> (* 相談支援 *), <<21336, 20385>> (* 単価 *), <<20214, 21517>> (* 件名 *), <<35531, 27714, 26360>> (* 請求書 *), <<24448, 30274>> (* 往療 *), <<20303, 25152>> (* 住所 *), <<21516, 24847>> (* 同意 *), <<24448, 30274, 32, 36890, 38498>> (* 往療 通院 *), <<20303, 25152, 32, 38651, 35441, 30058, 21495>> (* 住所 電話番号 *), <<32076, 32, 36942, 32, 22577, 21578>> (* 経 過 報告 *), <<10>> (* \n *), <<32>> (*   *) }, MaxClassifyFrags)

InitClassify ==
    /\ kPc = "start"
    /\ kText \in ClassifyTexts
    /\ kNorm = None
    /\ kCat = None
    /\ IdleBut("Classify")

Classify ==
    /\ kPc = "start"
    /\ kNorm' = normalize_text(kText)
    /\ kCat' = detect_category(kText)
    /\ kPc' = "done"
    /\ UNCHANGED <<kText, nVars, uVars, pVars, rVars, mVars, hVars>>

NextClassify == Classify

SpecClassify == InitClassify /\ [][NextClassify]_vars

\* C10 (as stated): whenever the normalized text matches a strong-signal
\* pattern of the patient roster or of the treatment report, detect_category
\* returns that category, whatever else the text matches.
C10_StrongSignalWins ==
    kPc = "done" =>
        /\ AnyMatchI(STRONG_PATIENTLIST, kNorm) => kCat = CAT_PATIENTLIST
        /\ AnyMatchI(STRONG_REPORT, kNorm) => kCat = CAT_REPORT

\* C10 (amended): a patient-roster strong signal always gives the patient
\* roster; a treatment-report strong signal gives the treatment report when
\* no patient-roster strong signal matches as well.
C10_StrongSignalPriority ==
    kPc = "done" =>
        /\ AnyMatchI(STRONG_PATIENTLIST, kNorm) => kCat = CAT_PATIENTLIST
        /\ (AnyMatchI(STRONG_REPORT, kNorm) /\ ~AnyMatchI(STRONG_PATIENTLIST, kNorm))
              => kCat = CAT_REPORT

\* C10 witness: a strong signal decided against the keyword scores.
C10_Witness ==
    /\ kPc = "done"
    /\ AnyMatchI(STRONG_REPORT, kNorm)
    /\ ~AnyMatchI(STRONG_PATIENTLIST, kNorm)
    /\ kCat = CAT_REPORT
    /\ ScoredCategory(kNorm) = CAT_INVOICE

\* C11 as stated, for what the code lets one state (it has neither anchor
\* patterns nor a margin): without a strong signal, detect_category gives
\* その他 when the highest score is not positive or when two categories share
\* the highest score.
C11_TieIsUnclassified ==
    (kPc = "done" /\ ~AnyMatchI(STRONG_PATIENTLIST, kNorm) /\ ~AnyMatchI(STRONG_REPORT, kNorm)) =>
        LET sc == Scores(kNorm)
            hi == CHOOSE c \in DOMAIN sc : \A d \in DOMAIN sc : sc[d] <= sc[c]
        IN  (sc[hi] <= 0 \/ \E d \in DOMAIN sc : d # hi /\ sc[d] = sc[hi]) => kCat = CAT_OTHER

\* C14 as stated: without a strong signal, when the record or the patient
\* roster has the highest score and the text holds one of 報告対象年月, 所感,
\* 目標, 初療日, 往診日, detect_category gives the treatment report.
C14_ReportPhraseWins ==
    (kPc = "done" /\ ~AnyMatchI(STRONG_PATIENTLIST, kNorm) /\ ~AnyMatchI(STRONG_REPORT, kNorm)) =>
        LET sc == Scores(kNorm)
        IN  (/\ \E c \in DOMAIN sc : /\ KEYWORDS[c].cat \in {CAT_RECORD, CAT_PATIENTLIST}
                                     /\ \A d \in DOMAIN sc : d # c => sc[d] < sc[c]
             /\ Search(<<Grp(1, <<Alt(<<<<Str(<<22577, 21578, 23550, 35937, 24180, 26376>>)>>, <<Str(<<25152, 24863>>)>>, <<Str(<<30446, 27161>>)>>, <<Str(<<21021, 30274, 26085>>)>>, <<Str(<<24448, 35386, 26085>>)>>>>)>>)>> (* re: (報告対象年月|所感|目標|初療日|往診日) *), kNorm).ok)
            => kCat = CAT_REPORT

\* C14, amended: the same, unless the record has the highest score and the
\* text holds a care-planning phrase and not 療養費: then the patient roster
\* is given before the report phrases are looked at.
C14_ReportPhraseWinsUnlessRoster ==
    (kPc = "done" /\ ~AnyMatchI(STRONG_PATIENTLIST, kNorm) /\ ~AnyMatchI(STRONG_REPORT, kNorm)) =>
        LET sc == Scores(kNorm)
            top == CHOOSE c \in DOMAIN sc : \A d \in DOMAIN sc : d # c => sc[d] < sc[c]
        IN  (/\ \E c \in DOMAIN sc : /\ KEYWORDS[c].cat \in {CAT_RECORD, CAT_PATIENTLIST}
                                     /\ \A d \in DOMAIN sc : d # c => sc[d] < sc[c]
             /\ Search(<<Grp(1, <<Alt(<<<<Str(<<22577, 21578, 23550, 35937, 24180, 26376>>)>>, <<Str(<<25152, 24863>>)>>, <<Str(<<30446, 27161>>)>>, <<Str(<<21021, 30274, 26085>>)>>, <<Str(<<24448, 35386, 26085>>)>>>>)>>)>> (* re: (報告対象年月|所感|目標|初療日|往診日) *), kNorm).ok
             /\ ~(/\ KEYWORDS[top].cat = CAT_RECORD
                  /\ Search(<<Grp(1, <<Alt(<<<<Str(<<30456, 35527, 25903, 25588>>)>>, <<Str(<<30456, 35527, 25903, 25588, 20107, 26989, 25152>>)>>, <<Str(<<35336, 30011, 20316, 25104, 25285, 24403, 32773>>)>>, <<Str(<<22522, 26412, 24773, 22577>>)>>>>)>>)>> (* re: (相談支援|相談支援事業所|計画作成担当者|基本情報) *), kNorm).ok
                  /\ ~Search(<<Str(<<30274, 39178, 36027>>)>> (* re: 療養費 *), kNorm).ok))
            => kCat = CAT_REPORT

\* the patient roster has the highest score, the text holds a care-planning
\* phrase and a report phrase, and the treatment report is given
C14_Witness ==
    /\ kPc = "done" /\ kCat = CAT_REPORT
    /\ ~AnyMatchI(STRONG_PATIENTLIST, kNorm) /\ ~AnyMatchI(STRONG_REPORT, kNorm)
    /\ LET sc == Scores(kNorm)
       IN  \E c \in DOMAIN sc : /\ KEYWORDS[c].cat = CAT_PATIENTLIST
                                /\ \A d \in DOMAIN sc : d # c => sc[d] < sc[c]
    /\ Search(<<Grp(1, <<Alt(<<<<Str(<<30456, 35527, 25903, 25588>>)>>, <<Str(<<30456, 35527, 25903, 25588, 20107, 26989, 25152>>)>>, <<Str(<<35336, 30011, 20316, 25104, 25285, 24403, 32773>>)>>, <<Str(<<22522, 26412, 24773, 22577>>)>>>>)>>)>> (* re: (相談支援|相談支援事業所|計画作成担当者|基本情報) *), kNorm).ok
    /\ Search(<<Grp(1, <<Alt(<<<<Str(<<22577, 21578, 23550, 35937, 24180, 26376>>)>>, <<Str(<<25152, 24863>>)>>, <<Str(<<30446, 27161>>)>>, <<Str(<<21021, 30274, 26085>>)>>, <<Str(<<24448, 35386, 26085>>)>>>>)>>)>> (* re: (報告対象年月|所感|目標|初療日|往診日) *), kNorm).ok

\* C15: without a strong signal, when the record has the highest score,
\* detect_category gives the patient roster if the text holds a care-planning
\* phrase and not 療養費, and does not give it if the text holds 療養費.
C15_RosterOverRecord ==
    (kPc = "done" /\ ~AnyMatchI(STRONG_PATIENTLIST, kNorm) /\ ~AnyMatchI(STRONG_REPORT, kNorm)) =>
        LET sc == Scores(kNorm)
        IN  (\E c \in DOMAIN sc : /\ KEYWORDS[c].cat = CAT_RECORD
                                  /\ \A d \in DOMAIN sc : d # c => sc[d] < sc[c])
            => /\ (/\ Search(<<Grp(1, <<Alt(<<<<Str(<<30456, 35527, 25903, 25588>>)>>, <<Str(<<30456, 35527, 25903, 25588, 20107, 26989, 25152>>)>>, <<Str(<<35336, 30011, 20316, 25104, 25285, 24403, 32773>>)>>, <<Str(<<22522, 26412, 24773, 22577>>)>>>>)>>)>> (* re: (相談支援|相談支援事業所|計画作成担当者|基本情報) *), kNorm).ok
                   /\ ~Search(<<Str(<<30274, 39178, 36027>>)>> (* re: 療養費 *), kNorm).ok) => kCat = CAT_PATIENTLIST
               /\ Search(<<Str(<<30274, 39178, 36027>>)>> (* re: 療養費 *), kNorm).ok => kCat # CAT_PATIENTLIST

\* the record has the highest score, the text holds a care-planning phrase
\* and no 療養費, and the patient roster is given
C15_Witness ==
    /\ kPc = "done" /\ kCat = CAT_PATIENTLIST
    /\ ~AnyMatchI(STRONG_PATIENTLIST, kNorm) /\ ~AnyMatchI(STRONG_REPORT, kNorm)
    /\ LET sc == Scores(kNorm)
       IN  \E c \in DOMAIN sc : /\ KEYWORDS[c].cat = CAT_RECORD
                                /\ \A d \in DOMAIN sc : d # c => sc[d] < sc[c]
    /\ Search(<<Grp(1, <<Alt(<<<<Str(<<30456, 35527, 25903, 25588>>)>>, <<Str(<<30456, 35527, 25903, 25588, 20107, 26989, 25152>>)>>, <<Str(<<35336, 30011, 20316, 25104, 25285, 24403, 32773>>)>>, <<Str(<<22522, 26412, 24773, 22577>>)>>>>)>>)>> (* re: (相談支援|相談支援事業所|計画作成担当者|基本情報) *), kNorm).ok
    /\ ~Search(<<Str(<<30274, 39178, 36027>>)>> (* re: 療養費 *), kNorm).ok

\* C16 as stated: detect_category gives the invoice only for a text that
\* holds one of 請求書, INVOICE, 請求書番号, 請求金額, ご請求金額, 振込先, 内訳,
\* 合計金額.
C16_InvoiceNeedsCorePhrase ==
    (kPc = "done" /\ kCat = CAT_INVOICE) =>
        SearchI(<<Grp(1, <<Alt(<<<<Str(<<35531, 27714, 26360>>)>>, <<Str(<<73, 78, 86, 79, 73, 67, 69>>)>>, <<Str(<<35531, 27714, 26360, 30058, 21495>>)>>, <<Str(<<35531, 27714, 37329, 38989>>)>>, <<Str(<<12372, 35531, 27714, 37329, 38989>>)>>, <<Str(<<25391, 36796, 20808>>)>>, <<Str(<<20869, 35379>>)>>, <<Str(<<21512, 35336, 37329, 38989>>)>>>>)>>)>> (* re: (請求書|INVOICE|請求書番号|請求金額|ご請求金額|振込先|内訳|合計金額) *), kNorm).ok

(***************************************************************************)
(* AI_OCR: uniquify_filename against the files of the destination folder   *)
(***************************************************************************)
\* _file_exists: the GET on the path of the name answers 200 exactly when the
\* folder holds a file of that name; store is the set of the names it holds.
_file_exists(store, filename) == filename \in store

\* base and ext of filename.rpartition("."), ext with its ".": the name is cut
\* at its last ".", and a name without "." is all base
BaseOf(filename) ==
    LET ks == {k \in 1..Len(filename) : filename[k] = 46}
    IN  IF ks = {} THEN filename
        ELSE SubSeq(filename, 1, (CHOOSE k \in ks : \A j \in ks : k >= j) - 1)

ExtOf(filename) ==
    LET ks == {k \in 1..Len(filename) : filename[k] = 46}
    IN  IF ks = {} THEN <<>>
        ELSE SubSeq(filename, CHOOSE k \in ks : \A j \in ks : k >= j, Len(filename))

\* f"{base}_v{i}{ext}"
VersionedName(base, i, ext) == base \o <<95, 118>> (* _v *) \o Dec(i) \o ext

Candidate_AfterExt(filename, i) == VersionedName(filename, i, <<>>)

Candidate(filename, i) == VersionedName(BaseOf(filename), i, ExtOf(filename))

\* f"{base}_{uuid.uuid4().hex[:6]}{ext}", rnd the six digits drawn
OpaqueName(filename, rnd) == BaseOf(filename) \o <<95>> (* _ *) \o rnd \o ExtOf(filename)

\* range(2, 50)
VERSION_STOP_Late == 50 + 1

VERSION_STOP == 50

\* the loop over range(2, 50) ends without a return: the folder holds the
\* name and each of its versions
VersionsTaken(store, filename) ==
    /\ _file_exists(store, filename)
    /\ \A i \in 2..(VERSION_STOP - 1) : _file_exists(store, Candidate(filename, i))

\* a variant that turns to the opaque suffix at once
uniquify_filename_OpaqueFirst(store, filename, rnd) ==
    IF ~_file_exists(store, filename) THEN filename ELSE OpaqueName(filename, rnd)

\* the call as a whole, on a folder that nothing else writes to meanwhile
uniquify_filename(store, filename, rnd) ==
    IF ~_file_exists(store, filename) THEN filename
    ELSE LET free == {i \in 2..(VERSION_STOP - 1) :
                         ~_file_exists(store, Candidate(filename, i))}
         IN  IF free # {} THEN Candidate(filename, CHOOSE i \in free : \A j \in free : i <= j)
             ELSE OpaqueName(filename, rnd)

(***************************************************************************)
(* Specification SpecUniq: one call of uniquify_filename, query by query,  *)
(* on a folder that nothing else writes to.                                *)
(***************************************************************************)
\* the highest version of a name that a folder of Init holds
MaxStoredVersion == 49

\* what uuid4().hex[:6] may give
HexSuffixes == {<<51, 102, 50, 97, 49, 99>> (* 3f2a1c *), <<48, 48, 98, 101, 101, 102>> (* 00beef *)}

\* The folders of Init for the name f: the empty one; f with its versions up
\* to k; all versions without f; f and all versions but one; f, all versions
\* and a name with an opaque suffix.
UniqStores(f) ==
    LET V(i) == VersionedName(BaseOf(f), i, ExtOf(f))
        all == {V(i) : i \in 2..MaxStoredVersion}
    IN  {{}} \cup {{f} \cup {V(i) : i \in 2..k} : k \in 1..MaxStoredVersion}
        \cup {all}
        \cup {({f} \cup all) \ {V(j)} : j \in {2, 3, 25, 49}}
        \cup {{f} \cup all \cup {OpaqueName(f, h)} : h \in HexSuffixes}

InitUniq ==
    /\ uPc = "start"
    /\ uName \in {<<97, 46, 106, 112, 103>> (* a.jpg *), <<114, 46, 118, 49, 46, 112, 100, 102>> (* r.v1.pdf *), <<109, 101, 109, 111>> (* memo *)}
    /\ uStore \in UniqStores(uName)
    /\ uI = 0
    /\ uAsked = <<>>
    /\ uResult = None
    /\ IdleBut("Uniq")

\* if not _file_exists(path_folder, filename): return filename
UniqCheckOriginal ==
    /\ uPc = "start"
    /\ uAsked' = Append(uAsked, uName)
    /\ IF _file_exists(uStore, uName)
       THEN uPc' = "loop" /\ uI' = 2 /\ uResult' = uResult
       ELSE uPc' = "done" /\ uI' = uI /\ uResult' = uName
    /\ UNCHANGED <<uName, uStore, nVars, kVars, pVars, rVars, mVars, hVars>>

\* one turn of the loop; the turn after which the range is used up returns
\* the name with the opaque suffix
UniqCheckVersion ==
    /\ uPc = "loop"
    /\ uI < VERSION_STOP
    /\ uAsked' = Append(uAsked, Candidate(uName, uI))
    /\ uI' = uI + 1
    /\ IF ~_file_exists(uStore, Candidate(uName, uI))
       THEN uPc' = "done" /\ uResult' = Candidate(uName, uI)
       ELSE IF uI + 1 < VERSION_STOP
       THEN uPc' = "loop" /\ uResult' = uResult
       ELSE /\ uPc' = "done"
            /\ \E rnd \in HexSuffixes : uResult' = OpaqueName(uName, rnd)
    /\ UNCHANGED <<uName, uStore, nVars, kVars, pVars, rVars, mVars, hVars>>

NextUniq == UniqCheckOriginal \/ UniqCheckVersion

SpecUniq == InitUniq /\ [][NextUniq]_vars

\* C1: the call returns the name unchanged when no file of the name exists;
\* when one exists, the result is another string, and it is base_v{i}ext for
\* the smallest i of 2..49 whose name does not exist, when there is such an i.
C1_FirstFreeVersion ==
    uPc = "done" =>
        LET V(i) == VersionedName(BaseOf(uName), i, ExtOf(uName))
        IN  /\ uName \notin uStore => uResult = uName
            /\ uName \in uStore =>
                  /\ uResult # uName
                  /\ \A i \in 2..49 :
                        (V(i) \notin uStore /\ \A j \in 2..(i - 1) : V(j) \in uStore)
                            => uResult = V(i)

\* C1 witness: the name and its version 2 exist, and the call gave version 3
\* of a name with an extension.
C1_Witness ==
    /\ uPc = "done"
    /\ uName \in uStore
    /\ ExtOf(uName) # <<>>
    /\ VersionedName(BaseOf(uName), 2, ExtOf(uName)) \in uStore
    /\ uResult = VersionedName(BaseOf(uName), 3, ExtOf(uName))

\* C2 (as stated): in a folder that nothing else writes to, the name that the
\* call returns is never the name of a file of the folder.
C2_ResultIsFree == uPc = "done" => uResult \notin uStore

ExtractFields_BlankPatient(text) ==
    [category |-> detect_category(text), patient |-> Or(extract_patient(text), <<>>),
     doctor |-> extract_doctor(text), extracted |-> extract_date(text)]

\* category and fields of the text
ExtractFields(text) ==
    [category |-> detect_category(text), patient |-> extract_patient(text),
     doctor |-> extract_doctor(text), extracted |-> extract_date(text)]

\* The name before uniquify_filename. now0 is _now_date_str() at the entry of
\* the handler, now1 the date that datetime.now() gives when the name is built.
BuildName(text, ext, f, now0, now1) ==
    LET date_str == IF f.extracted # None THEN f.extracted ELSE now0
    IN  IF f.category = CAT_REPORT
        THEN build_filename_treatment_report(
                 parse_meta_from_tiryo_houkokusho(text), ext, now1)
        ELSE build_filename(f.category, f.patient, f.doctor, date_str, ext, text, now1)

\* rnd is the digits that uuid4 gives, store the names of the files of the
\* destination folder.
HandleDocument(f, built, store, now0, now1, rnd) ==
    [now0 |-> now0, now1 |-> now1, category |-> f.category, patient |-> f.patient,
     doctor |-> f.doctor, extracted |-> f.extracted, built |-> built,
     filename |-> uniquify_filename(store, built, rnd)]

(***************************************************************************)
(* Specification SpecPipeline: two runs of a handler on the same OCR text, *)
(* with the same extension, against the same files of the destination      *)
(* folder; each run reads the clock and draws its random digits itself.    *)
(***************************************************************************)
MaxPipeFrags == 2

\* n times the digit 1
Ones(n) == [k \in 1..n |-> 49]

\* a clinic line whose name holds each of \ / : * ? " < > |
ClinicLine ==
    <<27835, 30274, 38498, 21517, 32, 65, 92, 66, 47, 67, 58, 68, 42, 69, 63, 70, 34, 71, 60, 72, 62, 73, 124, 74, 38498, 10>>

\* a treatment report whose office name holds each of \ / : * ? " < > |
ReportDoc ==
    <<27835, 30274, 22577, 21578, 26360, 32, 50, 48, 50, 53, 45, 48, 49, 45, 48, 49, 32, 12316, 32, 50, 48, 50, 53, 45, 48, 49, 45, 51, 49, 32, 12373, 12367, 12425, 27835, 30274, 38498, 32, 30000, 20013, 32, 20304, 34276, 22826, 37070, 32, 27096, 32, 20107, 26989, 25152, 21517, 32, 28171, 35895, 21306, 32, 12465, 92, 12450, 47, 12503, 58, 12521, 42, 12531, 63, 12354, 34, 12356, 60, 12358, 62, 12360, 124, 12362, 32, 24481, 20013>>

PipeTexts ==
    Concats({<<24448, 30274>> (* 往療 *), <<21516, 24847, 26360>> (* 同意書 *), <<27835, 30274, 22577, 21578, 26360>> (* 治療報告書 *), <<24739, 32773, 27663, 21517, 32, 20304, 34276, 32, 22826, 37070, 10>> (* 患者氏名 佐藤 太郎\n *),
             <<50, 48, 50, 53, 24180, 49, 26376, 53, 26085>> (* 2025年1月5日 *), <<20196, 21644, 55, 24180, 51, 26376, 57, 26085>> (* 令和7年3月9日 *), ClinicLine}, MaxPipeFrags)
    \cup {<<35531, 27714, 26085>> (* 請求日 *), <<20132, 20184, 26085>> (* 交付日 *), <<25285, 24403, 21307, 32, 23665, 30000, 33457, 23376, 10, 21516, 24847, 26360>> (* 担当医 山田花子\n同意書 *), ReportDoc,
          <<35531, 27714, 26085, 32, 35531, 27714, 37329, 38989, 10>> (* 請求日 請求金額\n *) \o Ones(59) \o <<35370, 21839, 12510, 12483, 12469, 12540, 12472, 37756, 28792, 38498, 32, 24481, 20013>> (* 訪問マッサージ鍼灸院 御中 *),
          <<27835, 30274, 22577, 21578, 26360, 32, 20107, 26989, 25152, 21517, 32, 28171, 35895, 21306, 32>> (* 治療報告書 事業所名 渋谷区  *) \o Ones(90) \o <<32, 24481, 20013>> (*  御中 *)}

\* the dates that the clock may show, in the order of time
Clock == <<<<50, 48, 50, 53, 48, 49, 51, 49>> (* 20250131 *), <<50, 48, 50, 53, 48, 50, 48, 49>> (* 20250201 *)>>

\* The files of the destination folder, for an image (.jpg) and for a PDF:
\* none; three names that the handlers build; their versions 2..49 as well.
PipeFolders ==
    LET taken == {<<12381, 12398, 20182, 95, 19981, 26126, 95, 50, 48, 50, 53, 48, 49, 51, 49, 46, 106, 112, 103>> (* その他_不明_20250131.jpg *), <<50, 48, 50, 53, 45, 48, 49, 95, 27835, 30274, 22577, 21578, 26360, 46, 106, 112, 103>> (* 2025-01_治療報告書.jpg *),
                  <<35531, 27714, 26360, 95>> (* 請求書_ *) \o Ones(59) \o <<35370, 21839, 12510, 12483, 12469, 12540, 12472, 37756, 28792, 38498, 95, 50, 48, 50, 53, 24180, 48, 46, 106, 112, 103>> (* 訪問マッサージ鍼灸院_2025年0.jpg *)}
        full == taken \cup {VersionedName(BaseOf(n), i, ExtOf(n)) : n \in taken, i \in 2..49}
    IN  {<<<<46, 106, 112, 103>> (* .jpg *), {}>>, <<<<46, 106, 112, 103>> (* .jpg *), taken>>, <<<<46, 106, 112, 103>> (* .jpg *), full>>, <<<<46, 112, 100, 102>> (* .pdf *), {}>>}

InitPipeline ==
    /\ pText \in PipeTexts
    /\ \E d \in PipeFolders : pExt = d[1] /\ pStore = d[2]
    /\ pRun = <<>>
    /\ IdleBut("Pipeline")

\* One run of the handler, up to the name that it hands to the upload; the
\* second run starts when the first has ended, so its clock is not earlier.
PipeRun ==
    /\ Len(pRun) < 2
    /\ LET first == IF pRun = <<>> THEN 1
                    ELSE CHOOSE i \in 1..Len(Clock) : Clock[i] = pRun[Len(pRun)].now1
       IN  \E f \in {ExtractFields(pText)} :
           \E i0 \in first..Len(Clock) : \E i1 \in i0..Len(Clock) :
           \E built \in {BuildName(pText, pExt, f, Clock[i0], Clock[i1])} :
           \E rnd \in HexSuffixes :
              pRun' = Append(pRun, HandleDocument(f, built, pStore,
                                                  Clock[i0], Clock[i1], rnd))
    /\ UNCHANGED <<pText, pExt, pStore, nVars, kVars, uVars, rVars, mVars, hVars>>

NextPipeline == PipeRun

SpecPipeline == InitPipeline /\ [][NextPipeline]_vars

\* C5: for the empty OCR text a run ends with a name; normalize_text gives the
\* empty string, detect_category gives その他, and the extractors of patient,
\* doctor, clinic, invoice addressee, staff, client, client department and
\* date all give absence.
C5_EmptyTextDegrades ==
    \A r \in DOMAIN pRun :
       pText = <<>> =>
          /\ normalize_text(pText) = <<>>
          /\ pRun[r].category = CAT_OTHER
          /\ pRun[r].patient = None /\ pRun[r].doctor = None /\ pRun[r].extracted = None
          /\ extract_clinic(pText) = None /\ extract_invoice_clinic(pText) = None
          /\ extract_staff(pText) = None /\ extract_client(pText) = None
          /\ extract_client_dept(pText) = None
          /\ pRun[r].filename # None /\ pRun[r].filename # <<>>

C5_Witness == pText = <<>> /\ Len(pRun) = 2 /\ pRun[2].category = CAT_OTHER

\* C6 as stated: two runs on the same text, extension and folder give the
\* same category, the same fields and the same filename.
C6_SameOutcome ==
    Len(pRun) = 2 =>
       /\ pRun[1].category = pRun[2].category
       /\ pRun[1].patient = pRun[2].patient /\ pRun[1].doctor = pRun[2].doctor
       /\ pRun[1].extracted = pRun[2].extracted
       /\ pRun[1].filename = pRun[2].filename

\* C6, amended: two runs on the same text, extension and folder give the same
\* category and the same fields; they give the same filename as well when
\* both read the same dates from the clock and the folder leaves a version
\* 2..49 of the name free, so that no random suffix is drawn.
C6_SameOutcomeGivenClock ==
    Len(pRun) = 2 =>
       /\ pRun[1].category = pRun[2].category
       /\ pRun[1].patient = pRun[2].patient /\ pRun[1].doctor = pRun[2].doctor
       /\ pRun[1].extracted = pRun[2].extracted
       /\ (/\ pRun[1].now0 = pRun[2].now0 /\ pRun[1].now1 = pRun[2].now1
           /\ ~VersionsTaken(pStore, pRun[1].built))
          => pRun[1].filename = pRun[2].filename

C6_Witness ==
    /\ Len(pRun) = 2
    /\ pRun[1].now0 = pRun[2].now0 /\ pRun[1].now1 = pRun[2].now1
    /\ pRun[1].extracted = None
    /\ pRun[1].built \in pStore /\ ~VersionsTaken(pStore, pRun[1].built)
    /\ pRun[1].filename = pRun[2].filename /\ pRun[1].filename # pRun[1].built

\* C7: no filename that a run hands to the upload holds one of the characters
\* \ / : * ? " < > |
C7_NoForbiddenCharacter ==
    \A r \in DOMAIN pRun : \A k \in DOMAIN pRun[r].filename :
       pRun[r].filename[k] \notin {92, 47, 58, 42, 63, 34, 60, 62, 124}

\* a record of visits whose clinic name holds the nine characters, and a name
\* that holds the clinic name with an underscore for each of them
C7_Witness ==
    /\ Len(pRun) >= 1
    /\ Find(ClinicLine, pText) >= 0
    /\ pRun[1].category = CAT_RECORD
    /\ Find(<<65, 95, 66, 95, 67, 95, 68, 95, 69, 95, 70, 95, 71, 95, 72, 95, 73, 95, 74, 38498>> (* A_B_C_D_E_F_G_H_I_J院 *), pRun[1].filename) >= 0

\* C8 as stated: a filename that a run hands to the upload is at most
\* MAX_BASENAME characters and the extension long.
C8_LengthBound ==
    \A r \in DOMAIN pRun : Len(pRun[r].filename) <= MAX_BASENAME + Len(pExt)

\* C12 as stated: the name a handler builds is the naming template of the
\* document's category (the generic one for a category without template)
\* filled with the tokens, which is what build_filename returns, for every
\* category, the treatment report included.
C12_NameFromTemplate ==
    \A r \in 1..Len(pRun) :
        pRun[r].built = build_filename(pRun[r].category, pRun[r].patient, pRun[r].doctor,
                                       Or(pRun[r].extracted, pRun[r].now0),
                                       pExt, pText, pRun[r].now1)

\* C13 as stated: a name that was not cut to its maximal length holds the
\* date of the document when extract_date gives one, as the date token, as
\* the year-month token or as the year-month of a treatment report, and a
\* date that the clock gave during the run only when extract_date gives none.
C13_DateFromDocument ==
    \A r \in 1..Len(pRun) :
        LET run == pRun[r]
            dates == IF run.extracted # None THEN {run.extracted} ELSE {run.now0, run.now1}
        IN  Len(run.built) < MAX_BASENAME + Len(pExt) =>
                \E d \in dates :
                    \/ Find(d, run.built) >= 0
                    \/ Find(_ym_from_dt(d), run.built) >= 0
                    \/ Find(Slice(d, 0, 4) \o <<45>> \o Slice(d, 4, 6), run.built) >= 0

\* C23: extract_date gives nothing or eight decimal digits; when a Western
\* pattern matches the normalized text, the date is the year, month and day
\* of the first such pattern's match, also when an era date stands earlier in
\* the text; an era date is given only when no Western pattern matches, with
\* the year 2018 + N.
C23_DatePriority ==
    \A r \in 1..Len(pRun) :
        LET d == pRun[r].extracted
            t == normalize_text(pText)
            western == {k \in 1..3 : Search(DATE_PATTERNS[k], t).ok}
            era == Search(DATE_PATTERNS[4], t)
            Ymd(m, offset) ==
                Pad(Dec(offset + ToInt(Group(m, t, 1))), 4)
                    \o Pad(Dec(ToInt(Group(m, t, 2))), 2) \o Pad(Dec(ToInt(Group(m, t, 3))), 2)
        IN  /\ d # None => Len(d) = 8 /\ \A i \in 1..8 : d[i] \in 48..57
            /\ IF western # {}
               THEN d = Ymd(Search(DATE_PATTERNS[CHOOSE k \in western : \A j \in western : k <= j], t), 0)
               ELSE IF era.ok THEN d = Ymd(era, 2018)
               ELSE d = None

\* a text with an era date before a Western date was handled and the Western
\* date was extracted
C23_Witness ==
    /\ pRun # <<>>
    /\ Search(<<Str(<<20196, 21644, 55, 24180, 51, 26376, 57, 26085>>), Rep(<<NCls({<<10, 10>>})>>, 0, -1), Str(<<50, 48, 50, 53, 24180, 49, 26376, 53, 26085>>)>> (* re: 令和7年3月9日.*2025年1月5日 *), pText).ok
    /\ pRun[1].extracted = <<50, 48, 50, 53, 48, 49, 48, 53>> (* 20250105 *)

(***************************************************************************)
(* Specification SpecNames: the name token validator on a pair of tokens,  *)
(* then extract_patient and extract_doctor on a line made of the pair      *)
(***************************************************************************)
NameTokens ==
    {<<20304, 34276>> (* 佐藤 *), <<22826, 37070>> (* 太郎 *), <<22823>> (* 大 *), <<26157>> (* 昭 *), <<30149, 38498>> (* 病院 *), <<23665, 26792, 30476>> (* 山梨県 *),
     <<21307, 24107>> (* 医師 *), <<20303, 25152>> (* 住所 *), <<19977, 30058>> (* 三番 *), <<22826, 49>> (* 太1 *)}

InitNames ==
    \* a line of a document: a label or none, two tokens, an honorific or none
    /\ \E g1 \in NameTokens, g2 \in NameTokens :
          /\ mG1 = g1
          /\ mG2 = g2
          /\ mText \in
             {lb \o g1 \o <<32>> \o g2 \o tail :
             lb \in {<<>>, <<24739, 32773, 27663, 21517, 32>> (* 患者氏名  *), <<21307, 24107, 21517, 32>> (* 医師名  *), <<27663, 32, 21517, 32>> (* 氏 名  *)},
             tail \in {<<>>, <<27096>> (* 様 *)}}
    /\ mPc = "validate"
    /\ mRole = ""
    /\ mValid = FALSE
    /\ mPatient = [by |-> "none", tokens |-> None, name |-> None]
    /\ mDoctor = [tokens |-> None, name |-> None]
    /\ IdleBut("Names")

\* _is_valid_person_tokens(g1, g2, role)
Validate ==
    /\ mPc = "validate"
    /\ \E role \in {"patient", "doctor"} :
          /\ mRole' = role
          /\ mValid' = _is_valid_person_tokens(mG1, mG2, role)
    /\ mPc' = "patient"
    /\ UNCHANGED <<mG1, mG2, mText, mPatient, mDoctor, nVars, kVars, uVars, pVars, rVars, hVars>>

\* extract_patient(text), with the strategy and the tokens behind the name
ExtractPatient ==
    /\ mPc = "patient"
    /\ mPatient' = PatientOf(normalize_text(mText))
    /\ mPc' = "doctor"
    /\ UNCHANGED <<mG1, mG2, mText, mRole, mValid, mDoctor, nVars, kVars, uVars, pVars, rVars, hVars>>

\* extract_doctor(text), with the tokens behind the name
ExtractDoctor ==
    /\ mPc = "doctor"
    /\ mDoctor' = [tokens |-> DoctorFrom(1, normalize_text(mText)),
                   name |-> extract_doctor(mText)]
    /\ mPc' = "done"
    /\ UNCHANGED <<mG1, mG2, mText, mRole, mValid, mPatient, nVars, kVars, uVars, pVars, rVars, hVars>>

NextNames == Validate \/ ExtractPatient \/ ExtractDoctor

SpecNames == InitNames /\ [][NextNames]_vars

\* C17 as stated: the validator rejects a pair of tokens of one character
\* each, whatever the role.
C17_OneCharPairRejected ==
    mPc # "validate" /\ Len(mG1) = 1 /\ Len(mG2) = 1 => ~mValid

\* C18 as stated: the validator rejects a pair when a token holds an
\* institution or location word, holds a word of the address list of the
\* extractors, or is a label word (for a patient, also a label word of the
\* patient fields).
C18_NonNameWordsRejected ==
    LET NonName(g) ==
            \/ Search(BAD_ANY_TOKEN, g).ok
            \/ _looks_addressy(g)
            \/ g \in BAD_ANY_EXACT
            \/ mRole = "patient" /\ g \in BAD_PATIENT_EXACT
    IN  mPc # "validate" /\ (NonName(mG1) \/ NonName(mG2)) => ~mValid

\* C19 as stated: a name that extract_patient returns was joined from two
\* tokens that the validator accepts for a patient, also when the name comes
\* from the honorific strategy or from the repair of a split label (the two
\* strategies that join a match themselves; the label strategies return only
\* what _accept let through).
C19_PatientTokensAccepted ==
    mPatient.by \in {"honorific", "broken"} =>
        _is_valid_person_tokens(mPatient.tokens[1], mPatient.tokens[2], "patient")

\* C20 as stated: a name that extract_doctor returns was joined from two
\* tokens that the validator accepts.
C20_DoctorTokensAccepted ==
    mDoctor.name # None =>
        _is_valid_person_tokens(mDoctor.tokens[1], mDoctor.tokens[2], "doctor")

\* C21: a name that extract_patient returns holds no phrase of the label-stop
\* list: whatever strategy gave the name, the text from the first such
\* phrase on was cut off.
C21_NoLabelInPatient ==
    mPatient.name # None => ~Search(LABEL_STOP_RE, mPatient.name).ok

\* a name was returned that was joined from two tokens holding a label-stop
\* phrase, and the name is what stood before the phrase
C21_Witness ==
    /\ mPatient.name # None
    /\ mPatient.tokens # None
    /\ Search(LABEL_STOP_RE, mPatient.tokens[1] \o mPatient.tokens[2]).ok
    /\ mPatient.name = mPatient.tokens[1]

(***************************************************************************)
(* Specification SpecRace: two handlers at work at the same time on one    *)
(* folder. A handler builds its name, asks the folder name by name as      *)
(* uniquify_filename does, and uploads; the steps of the two interleave.   *)
(***************************************************************************)
\* a variant that leaves a file of that name as it is
Stored_KeepFirst(store, name, content) ==
    IF name \in DOMAIN store THEN store
    ELSE [n \in DOMAIN store \cup {name} |-> IF n = name THEN content ELSE store[n]]

\* upload_small and upload_large: the folder after the upload of content
\* under the name; a file of that name is replaced.
Stored(store, name, content) ==
    [n \in DOMAIN store \cup {name} |-> IF n = name THEN content ELSE store[n]]

Handlers == {1, 2}

RaceTexts == {<<>>, <<20132, 20184, 26085>> (* 交付日 *), <<27835, 30274, 22577, 21578, 26360>> (* 治療報告書 *)}

\* Folders with files of content 0: none; the name of a document without
\* text; that name and its version 2; that name and all its versions.
RaceStores ==
    LET n0 == <<12381, 12398, 20182, 95, 19981, 26126, 95, 50, 48, 50, 53, 48, 49, 51, 49, 46, 106, 112, 103>> (* その他_不明_20250131.jpg *)
    IN  {[n \in ns |-> 0] : ns \in {{}, {n0}, {n0, Candidate(n0, 2)},
                                     {n0} \cup {Candidate(n0, i) : i \in 2..(VERSION_STOP - 1)}}}

InitRace ==
    /\ rText \in [Handlers -> RaceTexts]
    /\ rStore \in RaceStores
    /\ rPc = [h \in Handlers |-> "start"]
    /\ rName = [h \in Handlers |-> <<>>]
    /\ rI = [h \in Handlers |-> 0]
    /\ rFinal = [h \in Handlers |-> <<>>]
    /\ rLog = <<>>
    /\ IdleBut("Race")

\* handle_image up to the call of uniquify_filename
RaceBuild(h) ==
    /\ rPc[h] = "start"
    /\ rName' = [rName EXCEPT ![h] = BuildName(rText[h], <<46, 106, 112, 103>> (* .jpg *), ExtractFields(rText[h]),
                                               Clock[1], Clock[1])]
    /\ rI' = [rI EXCEPT ![h] = 1]
    /\ rPc' = [rPc EXCEPT ![h] = "ask"]
    /\ UNCHANGED <<rText, rFinal, rStore, rLog, nVars, kVars, uVars, pVars, mVars, hVars>>

\* one question of uniquify_filename to the folder: about the name itself
\* (rI = 1) or about its version rI
RaceAsk(h) ==
    /\ rPc[h] = "ask"
    /\ LET asked == IF rI[h] = 1 THEN rName[h] ELSE Candidate(rName[h], rI[h])
       IN  IF ~_file_exists(DOMAIN rStore, asked)
           THEN /\ rFinal' = [rFinal EXCEPT ![h] = asked]
                /\ rPc' = [rPc EXCEPT ![h] = "upload"]
                /\ rI' = rI
           ELSE IF rI[h] + 1 < VERSION_STOP
           THEN /\ rI' = [rI EXCEPT ![h] = @ + 1]
                /\ UNCHANGED <<rFinal, rPc>>
           ELSE /\ \E rnd \in HexSuffixes :
                      rFinal' = [rFinal EXCEPT ![h] = OpaqueName(rName[h], rnd)]
                /\ rPc' = [rPc EXCEPT ![h] = "upload"]
                /\ rI' = rI
    /\ UNCHANGED <<rText, rName, rStore, rLog, nVars, kVars, uVars, pVars, mVars, hVars>>

\* the upload of the handler's document under the name that it got
RaceUpload(h) ==
    /\ rPc[h] = "upload"
    /\ rStore' = Stored(rStore, rFinal[h], h)
    /\ rLog' = Append(rLog, [by |-> h, name |-> rFinal[h]])
    /\ rPc' = [rPc EXCEPT ![h] = "done"]
    /\ UNCHANGED <<rText, rName, rI, rFinal, nVars, kVars, uVars, pVars, mVars, hVars>>

NextRace == \E h \in Handlers : RaceBuild(h) \/ RaceAsk(h) \/ RaceUpload(h)

SpecRace == InitRace /\ [][NextRace]_vars

\* C4: the folder holds, under each name that the handlers uploaded to, the
\* document of the upload that came last: nothing keeps the second of two
\* uploads to one name from replacing the first.
C4_LastUploadReplaces ==
    \A k \in DOMAIN rLog :
       (\A j \in DOMAIN rLog : j > k => rLog[j].name # rLog[k].name)
          => rStore[rLog[k].name] = rLog[k].by

\* both handlers got the same name from a folder that did not hold it when
\* they asked, both uploaded, and the document of the first upload is gone
C4_Witness ==
    /\ \A h \in Handlers : rPc[h] = "done"
    /\ rFinal[1] = rFinal[2]
    /\ Len(rLog) = 2 /\ rLog[1].by # rLog[2].by
    /\ rStore[rFinal[1]] = rLog[2].by
    /\ \A n \in DOMAIN rStore : rStore[n] # rLog[1].by

(***************************************************************************)
(* Specification SpecHandle: one image or PDF message event, from the      *)
(* receipt of the content to the reply; each call to a service can raise   *)
(***************************************************************************)
InitHandle ==
    /\ hKind \in {"image", "pdf"}
    /\ hText \in RaceTexts
    /\ hStore \in RaceStores
    /\ hPc = "start"
    /\ hName = <<>>
    /\ hLink = FALSE
    /\ hRows = <<>>
    /\ hReplies = <<>>
    /\ IdleBut("Handle")

\* steps 1 to 4: the content, the OCR text, the fields, the folder and the
\* name that uniquify_filename gives; a call to a service that raises ends
\* the steps with the name still empty
HandleName ==
    /\ hPc = "start"
    /\ \/ /\ \E ext \in {IF hKind = "image" THEN <<46, 106, 112, 103>> (* .jpg *) ELSE <<46, 112, 100, 102>> (* .pdf *)} :
             \E built \in {BuildName(hText, ext, ExtractFields(hText), Clock[1], Clock[1])} :
             \E rnd \in HexSuffixes :
                hName' = uniquify_filename(DOMAIN hStore, built, rnd)
          /\ hPc' = "upload"
       \/ /\ hPc' = "except"
          /\ hName' = hName
    /\ UNCHANGED <<hKind, hText, hStore, hLink, hRows, hReplies, nVars, kVars, uVars, pVars, rVars, mVars>>

\* step 5, upload_small or upload_large: the document (content 1) is stored
\* under the name, or the request raises
HandleUpload ==
    /\ hPc = "upload"
    /\ \/ /\ hStore' = Stored(hStore, hName, 1)
          /\ hPc' = "share"
       \/ /\ hPc' = "except"
          /\ hStore' = hStore
    /\ UNCHANGED <<hKind, hText, hName, hLink, hRows, hReplies, nVars, kVars, uVars, pVars, rVars, mVars>>

\* step 5, create_share_link: the link of the stored item, or the request
\* raises
HandleShare ==
    /\ hPc = "share"
    /\ \/ /\ hLink' = TRUE
          /\ hPc' = "log"
       \/ /\ hPc' = "except"
          /\ hLink' = hLink
    /\ UNCHANGED <<hKind, hText, hStore, hName, hRows, hReplies, nVars, kVars, uVars, pVars, rVars, mVars>>

\* step 6, gsheet_append_rows with the status success: the row is appended;
\* or nothing is appended and the handler goes on (no spreadsheet key, or an
\* answer other than 200 and 201); or the token or the request raises
HandleLog ==
    /\ hPc = "log"
    /\ \/ /\ hRows' = Append(hRows, "success")
          /\ hPc' = "reply"
       \/ /\ hRows' = hRows
          /\ hPc' \in {"reply", "except"}
    /\ UNCHANGED <<hKind, hText, hStore, hName, hLink, hReplies, nVars, kVars, uVars, pVars, rVars, mVars>>

\* step 7, reply_message with the result, or the request raises
HandleReply ==
    /\ hPc = "reply"
    /\ \/ /\ hReplies' = Append(hReplies, "result")
          /\ hPc' = "done"
       \/ /\ hPc' = "except"
          /\ hReplies' = hReplies
    /\ UNCHANGED <<hKind, hText, hStore, hName, hLink, hRows, nVars, kVars, uVars, pVars, rVars, mVars>>

\* the except block: gsheet_append_rows with the status error (what it raises
\* is dropped), then reply_message with the failure text; when that raises,
\* the exception leaves the handler
HandleExcept ==
    /\ hPc = "except"
    /\ hRows' \in {hRows, Append(hRows, "error")}
    /\ \/ /\ hReplies' = Append(hReplies, "failure")
          /\ hPc' = "done"
       \/ /\ hPc' = "raised"
          /\ hReplies' = hReplies
    /\ UNCHANGED <<hKind, hText, hStore, hName, hLink, nVars, kVars, uVars, pVars, rVars, mVars>>

NextHandle ==
    HandleName \/ HandleUpload \/ HandleShare \/ HandleLog \/ HandleReply \/ HandleExcept

SpecHandle == InitHandle /\ [][NextHandle]_vars

\* C24 as stated: when the handler has replied with the failure text or has
\* appended a row with the status error, no file of the event is in the
\* folder and no row with the status success was appended for it.
C24_FailureMeansNothingStored ==
    (\/ \E k \in 1..Len(hReplies) : hReplies[k] = "failure"
     \/ \E k \in 1..Len(hRows) : hRows[k] = "error")
        => /\ \A n \in DOMAIN hStore : hStore[n] # 1
           /\ \A k \in 1..Len(hRows) : hRows[k] # "success"

====
